---- MODULE Spec2Model ----
(***************************************************************************)
(* Numidium-Local: the tool-calling pipeline (tool registry, permission    *)
(* gate, intent router, router tool service) and the session's context     *)
(* lifecycle (history, token accounting, compaction).                      *)
(*                                                                         *)
(* Conventions.  A JavaScript string that the code inspects is a sequence  *)
(* of tokens (path segments, command words and blanks), so that trim,      *)
(* startsWith and the risk patterns are computed and not looked up.        *)
(* Confidences and thresholds are hundredths (0.85 is 85).  A thrown       *)
(* exception is the outcome field threw = TRUE.                            *)
(***************************************************************************)
EXTENDS Integers, Sequences, FiniteSets, TLC

VARIABLES
  permissionHandler,   \* StructuredSession.permissionHandler: "null" or "set"
  files,               \* absolute paths that exist in the file system
  lastCall,            \* the latest ToolRegistry.executeToolCall, with its event order
  orchestration,       \* the ToolOrchestrator.orchestrateToolCall, when it is the latest call
  config,              \* LocalToolRouter.config
  routerPermissionHandler,  \* RouterToolService.permissionHandler: "null" or "set"
  turn,                \* the current or latest RouterToolService.processUserInput
  variant,             \* the session class: AiCliSession, StructuredSession, RouterSession
  state,               \* AiCliSession.state
  maxContextTokens,    \* AiCliSession.config.maxContextTokens
  conversationContext, \* StructuredSession.conversationContext
  addCalls,            \* how many addMessage calls the session has had
  appendOnly,          \* so far only addMessage ran and none found the threshold exceeded
  lastOp,              \* the latest session operation and what it did
  procs,               \* the turns in flight: where each stands in its awaits
  isLoading,           \* App state.isLoading
  renderedLoading,     \* state.isLoading as the rendered submit handler sees it
  turnsStarted,        \* how many turns were started
  lastCompaction,      \* the latest compaction that replaced the history
  lastTurn             \* how the latest finished turn ended

toolVars == <<permissionHandler, files, lastCall, orchestration>>

routerVars == <<config, routerPermissionHandler, turn>>

sessionVars ==
  <<variant, state, maxContextTokens, conversationContext, addCalls, appendOnly, lastOp>>

turnVars ==
  <<procs, isLoading, renderedLoading, turnsStarted, lastCompaction, lastTurn>>

vars == <<toolVars, routerVars, sessionVars, turnVars>>

----------------------------------------------------------------------------
(* JavaScript values *)

Null == "null"
NotAString == <<"<number>">>
TypeError == "TypeError"

isString(v) == v # NotAString

\* String.prototype.trim on a token string: blanks are the tokens " "
RECURSIVE trimStart(_)
trimStart(s) == IF s # <<>> /\ Head(s) = " " THEN trimStart(Tail(s)) ELSE s

RECURSIVE trimEnd(_)
trimEnd(s) ==
  IF s # <<>> /\ s[Len(s)] = " " THEN trimEnd(SubSeq(s, 1, Len(s) - 1)) ELSE s

trim(s) == trimEnd(trimStart(s))

\* String.prototype.toLowerCase, token by token
lowerToken(w) ==
  CASE w = "SUDO" -> "sudo"
    [] w = "RM" -> "rm"
    [] w = "RUN" -> "run"
    [] OTHER -> w

toLowerCase(s) == [i \in 1..Len(s) |-> lowerToken(s[i])]

\* /a\s+b/ : token a, one or more blanks, token b
matchesSpaced(s, a, b) ==
  \E i \in 1..Len(s) : \E j \in 1..Len(s) :
    /\ j > i + 1
    /\ s[i] = a
    /\ s[j] = b
    /\ \A k \in (i + 1)..(j - 1) : s[k] = " "

\* /a\s+/ : token a followed by a blank
matchesThenSpace(s, a) ==
  \E i \in 1..Len(s) : s[i] = a /\ i < Len(s) /\ s[i + 1] = " "

\* /a/ : token a occurs
matchesWord(s, a) == \E i \in 1..Len(s) : s[i] = a

----------------------------------------------------------------------------
(* Paths *)

cwd == <<"/", "home", "u", "proj">>

isAbsolute(p) == p # <<>> /\ Head(p) = "/"

resolve(base, p) == base \o p

resolvePath(p) == IF isAbsolute(p) THEN p ELSE resolve(cwd, p)

----------------------------------------------------------------------------
(* ToolResult and ToolCallConfirmationDetails *)

ToolResult(success, content, error) ==
  [success |-> success, content |-> content, error |-> error]

\* the value false of shouldConfirmExecute; a ToolCallConfirmationDetails is
\* truthy (confirm = TRUE)
NoConfirmation == [confirm |-> FALSE, risk |-> "none"]

----------------------------------------------------------------------------
(* WriteFileTool *)

WriteFile_validateParams(params) ==
  IF params.file_path = <<>> THEN "Missing or empty \"file_path\""
  ELSE IF ~isString(params.content) THEN "Content must be a string"
  ELSE Null

WriteFile_assessRisk(filePath, fileExists) ==
  IF Len(filePath) >= 3 /\ Head(filePath) = "/"
     /\ filePath[2] \in {"etc", "usr", "bin", "sbin", "root"}
  THEN "dangerous"
  ELSE IF \E i \in 1..Len(filePath) :
            filePath[i] \in {".bashrc", ".profile", ".zshrc", "passwd", "shadow"}
  THEN "dangerous"
  ELSE IF fileExists THEN "moderate"
  ELSE "safe"

WriteFile_shouldConfirmExecute(params, existing) ==
  LET filePath == resolvePath(params.file_path)
      fileExists == filePath \in existing
  IN  [confirm |-> TRUE,
       toolName |-> "Write File",
       params |-> [params EXCEPT !.file_path = filePath],
       risk |-> WriteFile_assessRisk(filePath, fileExists)]

----------------------------------------------------------------------------
(* ReadFileTool *)

ReadFile_validateParams(params) ==
  IF params.file_path = <<>> THEN "Missing or empty \"file_path\""
  ELSE IF "line_limit" \in DOMAIN params /\ params.line_limit < 1
  THEN "line_limit must be positive if provided"
  ELSE Null

ReadFile_shouldConfirmExecute(params, existing, fileSize) ==
  LET filePath == resolvePath(params.file_path)
      fileExists == filePath \in existing
  IN  IF ~fileExists THEN NoConfirmation
      ELSE [confirm |-> TRUE,
            toolName |-> "Read File",
            params |-> [params EXCEPT !.file_path = filePath],
            risk |-> IF fileSize > 10 * 1024 * 1024 THEN "dangerous"
                     ELSE IF fileSize > 1024 * 1024 THEN "moderate"
                     ELSE "safe"]

----------------------------------------------------------------------------
(* RunShellTool *)

RunShell_validateParams(params) ==
  IF params.command = <<>> THEN "Missing or empty \"command\""
  ELSE IF ~isString(params.command) THEN TypeError
  ELSE IF trim(params.command) = <<>> THEN "Missing or empty \"command\""
  ELSE IF "timeout" \in DOMAIN params
          /\ (params.timeout < 1000 \/ params.timeout > 300000)
  THEN "timeout must be between 1000ms and 300000ms (5 minutes)"
  ELSE Null

RunShell_assessCommandRisk(command) ==
  LET lowerCommand == toLowerCase(command)
  IN  IF \/ matchesSpaced(lowerCommand, "rm", "-rf")
         \/ matchesWord(lowerCommand, "sudo")
         \/ matchesSpaced(lowerCommand, "chmod", "777")
         \/ matchesThenSpace(lowerCommand, "dd")
         \/ matchesWord(lowerCommand, "mkfs")
         \/ matchesWord(lowerCommand, "fdisk")
         \/ matchesWord(lowerCommand, "format")
         \/ matchesSpaced(lowerCommand, "del", "/s")
         \/ matchesWord(lowerCommand, "shutdown")
         \/ matchesWord(lowerCommand, "reboot")
         \/ matchesWord(lowerCommand, "halt")
      THEN "dangerous"
      ELSE IF \/ matchesSpaced(lowerCommand, "npm", "install")
              \/ matchesSpaced(lowerCommand, "pip", "install")
              \/ matchesSpaced(lowerCommand, "apt", "install")
              \/ matchesSpaced(lowerCommand, "yum", "install")
              \/ matchesSpaced(lowerCommand, "brew", "install")
              \/ matchesWord(lowerCommand, "chmod")
              \/ matchesWord(lowerCommand, "chown")
              \/ matchesWord(lowerCommand, "mkdir")
              \/ matchesThenSpace(lowerCommand, "cp")
              \/ matchesThenSpace(lowerCommand, "mv")
              \/ matchesThenSpace(lowerCommand, "git")
      THEN "moderate"
      ELSE "safe"

RunShell_shouldConfirmExecute(params) ==
  LET command == trim(params.command)
  IN  [confirm |-> TRUE,
       toolName |-> "Run Shell Command",
       params |-> params,
       risk |-> RunShell_assessCommandRisk(command)]

----------------------------------------------------------------------------
(* ListDirectoryTool *)

ListDirectory_validateParams(params) ==
  IF params.directory_path = <<>> THEN "Missing or empty \"directory_path\""
  ELSE Null

ListDirectory_shouldConfirmExecute(params, dirExists) ==
  LET dirPath == resolvePath(params.directory_path)
  IN  IF ~dirExists THEN NoConfirmation
      ELSE [confirm |-> TRUE,
            toolName |-> "List Directory",
            params |-> [params EXCEPT !.directory_path = dirPath],
            risk |-> "safe"]

----------------------------------------------------------------------------
(* Tool execute bodies: each catches its own faults and returns a ToolResult. *)
(* env.ioOk is whether the operating system call succeeds.                   *)

NoEffect == [kind |-> "none"]

WriteFile_execute(params, env) ==
  LET validationError == WriteFile_validateParams(params)
      filePath == resolvePath(params.file_path)
  IN  IF validationError # Null
      THEN [result |-> ToolResult(FALSE, validationError, validationError),
            effect |-> NoEffect]
      ELSE IF env.ioOk
      THEN [result |-> ToolResult(TRUE, "File written successfully", Null),
            effect |-> [kind |-> "write", target |-> filePath]]
      ELSE [result |-> ToolResult(FALSE, "Failed to write file", "EACCES"),
            effect |-> NoEffect]

ReadFile_execute(params, existing, env) ==
  LET validationError == ReadFile_validateParams(params)
      filePath == resolvePath(params.file_path)
  IN  IF validationError # Null
      THEN [result |-> ToolResult(FALSE, validationError, validationError),
            effect |-> NoEffect]
      ELSE IF filePath \in existing /\ env.ioOk
      THEN [result |-> ToolResult(TRUE, "file content", Null),
            effect |-> [kind |-> "read", target |-> filePath]]
      ELSE [result |-> ToolResult(FALSE, "Failed to read file", "ENOENT"),
            effect |-> NoEffect]

RunShell_execute(params, env) ==
  LET validationError == RunShell_validateParams(params)
      command == trim(params.command)
  IN  IF validationError = TypeError
      THEN [result |-> ToolResult(FALSE, "Failed to execute command", TypeError),
            effect |-> NoEffect]
      ELSE IF validationError # Null
      THEN [result |-> ToolResult(FALSE, validationError, validationError),
            effect |-> NoEffect]
      ELSE IF env.ioOk
      THEN [result |-> ToolResult(TRUE, "stdout", Null),
            effect |-> [kind |-> "spawn", target |-> command]]
      ELSE [result |-> ToolResult(FALSE, "stderr", "Command execution failed"),
            effect |-> [kind |-> "spawn", target |-> command]]

ListDirectory_execute(params, env) ==
  LET validationError == ListDirectory_validateParams(params)
      dirPath == resolvePath(params.directory_path)
  IN  IF validationError # Null
      THEN [result |-> ToolResult(FALSE, validationError, validationError),
            effect |-> NoEffect]
      ELSE IF env.dirExists /\ env.ioOk
      THEN [result |-> ToolResult(TRUE, "directory listing", Null),
            effect |-> [kind |-> "list", target |-> dirPath]]
      ELSE [result |-> ToolResult(FALSE, "Failed to list directory", "ENOENT"),
            effect |-> NoEffect]

----------------------------------------------------------------------------
(* ToolRegistry *)

registeredTools == {"write_file", "read_file", "run_shell_command", "list_directory"}

getTool(toolName) == IF toolName \in registeredTools THEN toolName ELSE Null

validateParams(tool, params) ==
  CASE tool = "write_file" -> WriteFile_validateParams(params)
    [] tool = "read_file" -> ReadFile_validateParams(params)
    [] tool = "run_shell_command" -> RunShell_validateParams(params)
    [] tool = "list_directory" -> ListDirectory_validateParams(params)

shouldConfirmExecute(tool, params, env) ==
  CASE tool = "write_file" -> WriteFile_shouldConfirmExecute(params, files)
    [] tool = "read_file" -> ReadFile_shouldConfirmExecute(params, files, env.fileSize)
    [] tool = "run_shell_command" -> RunShell_shouldConfirmExecute(params)
    [] tool = "list_directory" -> ListDirectory_shouldConfirmExecute(params, env.dirExists)

execute(tool, params, env) ==
  CASE tool = "write_file" -> WriteFile_execute(params, env)
    [] tool = "read_file" -> ReadFile_execute(params, files, env)
    [] tool = "run_shell_command" -> RunShell_execute(params, env)
    [] tool = "list_directory" -> ListDirectory_execute(params, env)

NoResult == ToolResult(FALSE, "<none>", "<none>")

\* the outcome of one executeToolCall: the calls it made, in order, what it
\* returned (or that it threw), and the side effect of the tool body
Outcome(events, risk, result, threw, effect) ==
  [events |-> events, risk |-> risk, result |-> result, threw |-> threw,
   effect |-> effect]

\* the test inverted: if (!validationError)
validationFails_inverted(validationError) == validationError = Null \/ validationError = ""

\* if (validationError): a non-empty string is truthy
validationFails(validationError) == validationError # Null /\ validationError # ""

\* the handler's answer dropped: the call goes on whatever it said
gate_ignoresAnswer(confirmationDetails, handler, approved) ==
  IF confirmationDetails.confirm
  THEN IF handler # Null THEN "approved" ELSE "noHandler"
  ELSE "notNeeded"

\* the confirmation branch of executeToolCall: what the registry does with the
\* confirmation details, the handler it was given and the handler's answer
gate(confirmationDetails, handler, approved) ==
  IF confirmationDetails.confirm
  THEN IF handler # Null
       THEN IF ~approved THEN "cancelled" ELSE "approved"
       ELSE "noHandler"
  ELSE "notNeeded"

\* ToolRegistry.executeToolCall(toolName, params, permissionHandler), where
\* approved is what the permission handler answers if it is asked and env is
\* what the operating system answers
executeToolCall(toolName, params, handler, approved, env) ==
  LET tool == getTool(toolName)
  IN
  IF tool = Null
  THEN Outcome(<<>>, "none", ToolResult(FALSE, "Unknown tool", "not found in registry"),
               FALSE, NoEffect)
  ELSE
  LET validationError == validateParams(tool, params)
  IN
  IF validationError = TypeError
  THEN Outcome(<<"validateParams">>, "none", NoResult, TRUE, NoEffect)
  ELSE IF validationFails(validationError)
  THEN Outcome(<<"validateParams">>, "none",
               ToolResult(FALSE, "Validation failed", validationError), FALSE, NoEffect)
  ELSE
  LET confirmationDetails == shouldConfirmExecute(tool, params, env)
      decision == gate(confirmationDetails, handler, approved)
      run == execute(tool, params, env)
      checked == <<"validateParams", "shouldConfirmExecute">>
  IN
  CASE decision = "cancelled" ->
         Outcome(checked \o <<"permissionHandler", "denied">>, confirmationDetails.risk,
                 ToolResult(FALSE, "Tool execution cancelled by user",
                            "User cancelled operation"),
                 FALSE, NoEffect)
    [] decision = "approved" ->
         Outcome(checked \o <<"permissionHandler", "granted", "execute">>,
                 confirmationDetails.risk, run.result, FALSE, run.effect)
    [] decision = "noHandler" ->
         Outcome(checked, confirmationDetails.risk,
                 ToolResult(FALSE, "Permission handler not available",
                            "Permission handler not available"),
                 FALSE, NoEffect)
    [] decision = "notNeeded" ->
         Outcome(checked \o <<"execute">>, confirmationDetails.risk, run.result, FALSE,
                 run.effect)

\* StructuredSession.executeFunctionCall(functionCall): the execution record
\* built around the registry's outcome out
executeFunctionCall(toolName, params, out) ==
  IF out.threw
  THEN \* catch (error)
       [toolName |-> toolName, params |-> params,
        result |-> ToolResult(FALSE, "Function execution failed", TypeError),
        confirmed |-> FALSE]
  ELSE [toolName |-> toolName, params |-> params, result |-> out.result,
        confirmed |-> TRUE]

----------------------------------------------------------------------------
(* Inputs of the tool registry *)

FileSizes == {100, 2 * 1024 * 1024, 11 * 1024 * 1024}

Envs == [fileSize : FileSizes, dirExists : BOOLEAN, ioOk : BOOLEAN]

\* does event e occur in the event order es, and where
occurs(es, e) == \E i \in 1..Len(es) : es[i] = e

precedes(es, a, b) == \E i \in 1..Len(es) : \E j \in 1..Len(es) : i < j /\ es[i] = a /\ es[j] = b

WriteCalls ==
  {[toolName |-> "write_file", params |-> [file_path |-> p, content |-> c]] :
     p \in {<<>>, <<"notes.txt">>, <<"/", "etc", "passwd">>, <<"/", "tmp", "out.txt">>},
     c \in {<<"hello">>}}
  \cup {[toolName |-> "write_file",
         params |-> [file_path |-> <<"notes.txt">>, content |-> NotAString]]}

ReadCalls ==
  {[toolName |-> "read_file", params |-> [file_path |-> <<"notes.txt">>]],
   [toolName |-> "read_file", params |-> [file_path |-> <<>>]],
   [toolName |-> "read_file", params |-> [file_path |-> <<"notes.txt">>, line_limit |-> 0]]}

ShellCalls ==
  {[toolName |-> "run_shell_command", params |-> [command |-> c]] :
     c \in {<<>>, <<" ", " ">>, <<"ls", " ", "-la">>, <<" ", "npm", " ", "install">>,
            <<"SUDO", " ", "rm", " ", "-rf", " ", "/tmp/x">>, NotAString}}
  \cup {[toolName |-> "run_shell_command",
         params |-> [command |-> <<"ls", " ", "-la">>, timeout |-> 500]]}

ListCalls ==
  {[toolName |-> "list_directory", params |-> [directory_path |-> p]] :
     p \in {<<>>, <<"src">>}}

UnknownCalls == {[toolName |-> "delete_file", params |-> [file_path |-> <<"notes.txt">>]]}

ToolCalls == WriteCalls \cup ReadCalls \cup ShellCalls \cup ListCalls \cup UnknownCalls

----------------------------------------------------------------------------
(* IntelligentToolCaller and ToolOrchestrator *)

toolKeywords ==
  {"create", "make", "write", "generate", "save", "read", "show", "display", "view",
   "open", "cat", "run", "execute", "exec", "list", "ls", "dir", "edit", "modify",
   "update", "change", "npm", "git", "node", "python", "docker"}

\* String.prototype.includes on one token of the sample texts: the token is the
\* keyword, or holds it inside
tokenIncludes(token, keyword) ==
  \/ token = keyword
  \/ token = "category" /\ keyword = "cat"
  \/ token = "directly" /\ keyword = "dir"

\* isToolCallCandidate(input)
isToolCallCandidate(text) ==
  LET normalizedInput == toLowerCase(text)
  IN  \E keyword \in toolKeywords : \E i \in 1 .. Len(normalizedInput) :
        tokenIncludes(normalizedInput[i], keyword)

NoToolCall == [toolName |-> "<none>", params |-> [none |-> TRUE], confidence |-> 0]

\* !!value of a string argument that may be missing
truthyArgument(params, key) == key \in DOMAIN params /\ params[key] # <<>>

\* validateToolCall(toolCall)
validateToolCall(toolCall) ==
  CASE toolCall.toolName = "write_file" ->
         truthyArgument(toolCall.params, "file_path")
         /\ truthyArgument(toolCall.params, "content")
    [] toolCall.toolName = "read_file" -> truthyArgument(toolCall.params, "file_path")
    [] toolCall.toolName = "run_shell_command" -> truthyArgument(toolCall.params, "command")
    [] toolCall.toolName = "list_directory" ->
         truthyArgument(toolCall.params, "directory_path")
    [] OTHER -> FALSE

\* getRecommendation(input), detected being what detectToolIntent returns
getRecommendation(detected) ==
  IF detected = NoToolCall THEN [shouldUseTool |-> FALSE, toolCall |-> NoToolCall]
  ELSE IF ~validateToolCall(detected) THEN [shouldUseTool |-> FALSE, toolCall |-> NoToolCall]
  ELSE IF detected.confidence >= 80 THEN [shouldUseTool |-> TRUE, toolCall |-> detected]
  ELSE [shouldUseTool |-> FALSE, toolCall |-> detected]

\* ToolOrchestrator.executeToolCall: the registry's outcome, an exception of
\* the registry turned into a failed result
orchestratorExecute(toolCall, handler, approved, env) ==
  LET out == executeToolCall(toolCall.toolName, toolCall.params, handler, approved, env)
  IN  [ran |-> TRUE, toolCall |-> toolCall, out |-> out,
       result |-> IF out.threw THEN ToolResult(FALSE, "", TypeError) ELSE out.result]

NotRun ==
  [ran |-> FALSE, toolCall |-> NoToolCall,
   out |-> Outcome(<<>>, "none", NoResult, FALSE, NoEffect), result |-> NoResult]

\* the result of orchestrateToolCall and the registry calls behind it
Orchestration(success, needsLLMConfirmation, suggestedPrompt, source, automatic, guided) ==
  [success |-> success, needsLLMConfirmation |-> needsLLMConfirmation,
   suggestedPrompt |-> suggestedPrompt, source |-> source, raised |-> FALSE,
   automatic |-> automatic, guided |-> guided]

\* tryAutomaticExecution(context): the detected call is executed when the
\* recommendation says so
tryAutomaticExecution(recommendation, handler, approved, env) ==
  IF recommendation.shouldUseTool
  THEN orchestratorExecute(recommendation.toolCall, handler, approved, env)
  ELSE NotRun

\* strategies 1 and 2 only: an input nothing was executed for is never a
\* candidate
strategies_noCandidates(input, llmFunctionCall, automatic, guided) ==
  IF automatic.ran /\ automatic.result.success
  THEN Orchestration(TRUE, FALSE, FALSE, "automatic", automatic, NotRun)
  ELSE IF llmFunctionCall # NoToolCall
  THEN Orchestration(guided.result.success, FALSE, FALSE, "llm_guided", automatic, guided)
  ELSE Orchestration(FALSE, FALSE, FALSE, "failed", automatic, NotRun)

\* the three strategies of orchestrateToolCall, automatic and guided being
\* what tryAutomaticExecution and executeLLMFunctionCall come to;
\* needsLLMConfirmation and suggestedPrompt tell whether the result carries them
strategies(input, llmFunctionCall, automatic, guided) ==
  IF automatic.ran /\ automatic.result.success
  THEN Orchestration(TRUE, FALSE, FALSE, "automatic", automatic, NotRun)
  ELSE IF llmFunctionCall # NoToolCall
  THEN Orchestration(guided.result.success, FALSE, FALSE, "llm_guided", automatic, guided)
  ELSE IF isToolCallCandidate(input.text)
  THEN Orchestration(FALSE, TRUE, TRUE, "failed", automatic, NotRun)
  ELSE Orchestration(FALSE, FALSE, FALSE, "failed", automatic, NotRun)

\* orchestrateToolCall(context, llmFunctionCall): input is the user's text with
\* what detectToolIntent finds in it
orchestrateToolCall(input, llmFunctionCall, handler, approved, env) ==
  strategies(input, llmFunctionCall,
             tryAutomaticExecution(getRecommendation(input.detected), handler, approved,
                                   env),
             orchestratorExecute(llmFunctionCall, handler, approved, env))

Detected(toolName, params, confidence) ==
  [toolName |-> toolName, params |-> params, confidence |-> confidence]

\* user texts with what the intent patterns detect in them, the working
\* directory being /tmp
OrchestratorInputs ==
  {[text |-> <<"thanks">>, detected |-> NoToolCall],
   [text |-> <<"a", " ", "category">>, detected |-> NoToolCall],
   [text |-> <<"please", " ", "update">>, detected |-> NoToolCall],
   [text |-> <<"create", " ", "out.txt">>,
    detected |-> Detected("write_file", [file_path |-> <<"/", "tmp", "out.txt">>,
                                         content |-> <<"#", " ", "New", " ", "file">>], 90)],
   [text |-> <<"named", " ", "out.txt">>,
    detected |-> Detected("write_file", [file_path |-> <<"/", "tmp", "out.txt">>,
                                         content |-> <<"#", " ", "New", " ", "file">>], 90)],
   [text |-> <<"save", " ", "as", " ", "out.txt", " ", "with", " ", "' '">>,
    detected |-> Detected("write_file", [file_path |-> <<"/", "tmp", "out.txt">>,
                                         content |-> <<>>], 90)],
   [text |-> <<"append", " ", "x", " ", "to", " ", "out.txt">>,
    detected |-> Detected("read_file", [file_path |-> <<"/", "tmp", "out.txt">>], 80)],
   [text |-> <<"RUN", " ", "ls", " ", "-la">>,
    detected |-> Detected("run_shell_command", [command |-> <<"ls", " ", "-la">>], 90)]}

\* the file system as the orchestrated calls meet it
OrchestratorEnvs == {env \in Envs : env.fileSize = 100 /\ env.dirExists}

LlmFunctionCalls ==
  {NoToolCall,
   Detected("write_file", [file_path |-> <<"/", "tmp", "out.txt">>,
                           content |-> <<"hello">>], 100)}

NoInputText == [text |-> <<>>, detected |-> NoToolCall]

NoOrchestration ==
  [input |-> NoInputText, llmFunctionCall |-> NoToolCall,
   result |-> Orchestration(FALSE, FALSE, FALSE, "none", NotRun, NotRun)]

----------------------------------------------------------------------------
(* State and actions of the tool registry *)

NoCall ==
  [toolName |-> "<none>", params |-> [none |-> TRUE], handler |-> Null,
   approved |-> FALSE, validationError |-> Null,
   outcome |-> Outcome(<<>>, "none", NoResult, FALSE, NoEffect),
   execution |-> [toolName |-> "<none>", params |-> [none |-> TRUE],
                  result |-> NoResult, confirmed |-> FALSE]]

InitTools ==
  /\ permissionHandler = Null
  /\ files = {<<"/", "etc", "passwd">>}
  /\ lastCall = NoCall
  /\ orchestration = NoOrchestration

\* StructuredSession.setPermissionHandler
SetPermissionHandler ==
  /\ variant = "StructuredSession"
  /\ permissionHandler' = "set"
  /\ UNCHANGED <<files, lastCall, orchestration, routerVars, sessionVars, turnVars>>

\* StructuredSession.executeFunctionCall with its call of the registry
ExecuteToolCall ==
  \E call \in ToolCalls, approved \in BOOLEAN, env \in Envs :
    LET out == executeToolCall(call.toolName, call.params, permissionHandler, approved, env)
    IN  /\ variant = "StructuredSession"
        /\ lastCall' = [toolName |-> call.toolName, params |-> call.params,
                        handler |-> permissionHandler, approved |-> approved,
                        validationError |->
                          IF getTool(call.toolName) = Null THEN Null
                          ELSE validateParams(call.toolName, call.params),
                        outcome |-> out,
                        execution |-> executeFunctionCall(call.toolName, call.params,
                                                          out)]
        /\ files' = IF out.effect.kind = "write" THEN files \cup {out.effect.target}
                    ELSE files
        /\ orchestration' = NoOrchestration
        /\ UNCHANGED <<permissionHandler, routerVars, sessionVars, turnVars>>

\* the effect of a registry call on the file system
written(fs, run) ==
  IF run.out.effect.kind = "write" THEN fs \cup {run.out.effect.target} ELSE fs

\* toolOrchestrator.orchestrateToolCall(context, llmFunctionCall) with the
\* registry calls it makes
OrchestrateToolCall ==
  \E input \in OrchestratorInputs, llmFunctionCall \in LlmFunctionCalls,
     approved \in BOOLEAN, env \in OrchestratorEnvs :
    \E r \in {orchestrateToolCall(input, llmFunctionCall, permissionHandler, approved,
                                  env)} :
      \E latest \in {IF r.guided.ran THEN r.guided ELSE r.automatic} :
        /\ variant = "StructuredSession"
        /\ orchestration' = [input |-> input, llmFunctionCall |-> llmFunctionCall,
                             result |-> r]
        /\ lastCall' =
             IF latest.ran
             THEN [NoCall EXCEPT
                     !.toolName = latest.toolCall.toolName,
                     !.params = latest.toolCall.params,
                     !.handler = permissionHandler,
                     !.approved = approved,
                     !.validationError = validateParams(latest.toolCall.toolName,
                                                        latest.toolCall.params),
                     !.outcome = latest.out]
             ELSE NoCall
        /\ files' = written(written(files, r.automatic), r.guided)
        /\ UNCHANGED <<permissionHandler, routerVars, sessionVars, turnVars>>

----------------------------------------------------------------------------
(* LocalToolRouter: the pattern stage *)

Undefined == "undefined"

EmptyParams == [none |-> TRUE]

\* the rules of performPatternRouting in registration order (filePatterns,
\* commandPatterns, intelligentPatterns); params is what extractParams returns
\* on the sample text of the rule, the shell rule's command comes with the input
Patterns ==
  << [tool |-> "write_file", confidence |-> 90,
      params |-> [file_path |-> "./hello.py", content |-> "print('Hello, World!')"]],
     [tool |-> "write_file", confidence |-> 80,
      params |-> [file_path |-> "./b.txt", content |-> ""]],
     [tool |-> "write_file", confidence |-> 85,
      params |-> [file_path |-> "./c.txt", content |-> ""]],
     [tool |-> "read_file", confidence |-> 80,
      params |-> [file_path |-> "./notes.txt"]],
     [tool |-> "run_shell_command", confidence |-> 85,
      params |-> [command |-> <<>>]],
     [tool |-> "analyze_project", confidence |-> 90, params |-> EmptyParams],
     [tool |-> "create_feature", confidence |-> 85,
      params |-> [name |-> "auth", description |-> "Create auth feature"]],
     [tool |-> "add_component", confidence |-> 80,
      params |-> [name |-> "Button", description |-> "Create Button component"]],
     [tool |-> "build_api", confidence |-> 80,
      params |-> [name |-> "users", description |-> "Create API layer for users"]] >>

extractParams(i, input) ==
  IF Patterns[i].tool = "run_shell_command"
  THEN [command |-> input.command]
  ELSE Patterns[i].params

\* toolCalls.length > 0 in place of the threshold test
someAbove_anyCall(toolCalls, threshold) == Len(toolCalls) > 0

\* toolCalls.every in place of toolCalls.some
someAbove_every(toolCalls, threshold) ==
  \A i \in 1..Len(toolCalls) : toolCalls[i].confidence >= threshold

\* toolCalls.some(tc => tc.confidence >= threshold)
someAbove(toolCalls, threshold) ==
  \E i \in 1..Len(toolCalls) : toolCalls[i].confidence >= threshold

\* the loop without the detectedTools test: every matching rule adds its call
RECURSIVE applyPatterns_everyMatch(_, _, _, _)
applyPatterns_everyMatch(i, input, detectedCalls, detectedTools) ==
  IF i > Len(Patterns) THEN detectedCalls
  ELSE IF i \in input.matched
  THEN applyPatterns_everyMatch(i + 1, input,
                     Append(detectedCalls,
                            [toolName |-> Patterns[i].tool,
                             params |-> extractParams(i, input),
                             confidence |-> Patterns[i].confidence]),
                     detectedTools \cup {Patterns[i].tool})
  ELSE applyPatterns_everyMatch(i + 1, input, detectedCalls, detectedTools)

\* the loop over allPatterns from rule i on
RECURSIVE applyPatterns(_, _, _, _)
applyPatterns(i, input, detectedCalls, detectedTools) ==
  IF i > Len(Patterns) THEN detectedCalls
  ELSE IF i \in input.matched /\ Patterns[i].tool \notin detectedTools
  THEN applyPatterns(i + 1, input,
                     Append(detectedCalls,
                            [toolName |-> Patterns[i].tool,
                             params |-> extractParams(i, input),
                             confidence |-> Patterns[i].confidence]),
                     detectedTools \cup {Patterns[i].tool})
  ELSE applyPatterns(i + 1, input, detectedCalls, detectedTools)

\* rules that keep a position between calls (a regex with the g flag): after
\* an invocation that matched, the next one starts past the match and finds
\* nothing
performPatternRouting_keepsPosition(input) ==
  LET detectedCalls ==
        IF turn.routing.patternDecision.toolCalls # <<>> THEN <<>>
        ELSE applyPatterns(1, input, <<>>, {})
  IN  [executeTools |-> Len(detectedCalls) > 0,
       toolCalls |-> detectedCalls,
       reasoning |-> IF Len(detectedCalls) > 0
                     THEN "Pattern-based detection found tool(s)"
                     ELSE "No tool patterns detected",
       route |-> "pattern"]

performPatternRouting(input) ==
  LET detectedCalls == applyPatterns(1, input, <<>>, {})
  IN  [executeTools |-> Len(detectedCalls) > 0,
       toolCalls |-> detectedCalls,
       reasoning |-> IF Len(detectedCalls) > 0
                     THEN "Pattern-based detection found tool(s)"
                     ELSE "No tool patterns detected",
       route |-> "pattern"]

----------------------------------------------------------------------------
(* LocalToolRouter: the classification stage *)

Number(v) == [nan |-> FALSE, value |-> v]

NaN == [nan |-> TRUE, value |-> 0]

\* parseFloat on the confidence strings of the sample responses; anything
\* else (a word, undefined) is NaN
parseFloat(str) ==
  CASE str = "0.9" -> Number(90)
    [] str = "0.8" -> Number(80)
    [] str = "0.5" -> Number(50)
    [] str = "1.5" -> Number(150)
    [] str = "-1" -> Number(-100)
    [] str = "0" -> Number(0)
    [] OTHER -> NaN

\* parseFloat(confidenceStr) || 0.5 : NaN and 0 are falsy
confidenceOf(confidenceStr) ==
  LET v == parseFloat(confidenceStr)
  IN  IF v.nan \/ v.value = 0 THEN 50 ELSE v.value

\* lines.find(l => l.startsWith(tag))?.substring(n).trim() : the body of the
\* first line with that tag
\* a line of the response: its tag, and after the tag either the items of a
\* comma-separated list (TOOLS, PARAMS) or a text (REASON)
NotFound == [found |-> FALSE, items |-> <<>>, text |-> ""]

RECURSIVE findLine(_, _, _)
findLine(lines, tag, i) ==
  IF i > Len(lines) THEN NotFound
  ELSE IF lines[i].tag = tag
  THEN [found |-> TRUE, items |-> lines[i].items, text |-> lines[i].text]
  ELSE findLine(lines, tag, i + 1)

\* the text NONE: one item, no colon
NONE == <<[name |-> "NONE", conf |-> Undefined]>>

\* !toolsLine || toolsLine === 'NONE'
noTools(toolsLine) == ~toolsLine.found \/ toolsLine.items = <<>> \/ toolsLine.items = NONE

\* the params object built from the PARAMS line: key && value, later pairs win
parseParams(paramsLine) ==
  IF ~paramsLine.found \/ paramsLine.items = <<>> THEN EmptyParams
  ELSE LET pairs == paramsLine.items
           good == {i \in 1..Len(pairs) :
                      pairs[i].key # "" /\ pairs[i].value # Undefined
                      /\ pairs[i].value # ""}
           keys == {pairs[i].key : i \in good}
           latest(k) == CHOOSE i \in good :
                        /\ pairs[i].key = k
                        /\ \A j \in good : pairs[j].key = k => j <= i
       IN  IF keys = {} THEN EmptyParams
           ELSE [k \in keys |-> pairs[latest(k)].value]

NoDecision ==
  [executeTools |-> FALSE, toolCalls |-> <<>>, reasoning |-> "<none>", route |-> "<none>"]

\* parseClassificationResponse(response, userInput): the decision, or threw
parseClassificationResponse(response, threshold) ==
  IF ~response.defined
  THEN [threw |-> TRUE, decision |-> NoDecision]
  ELSE
  LET toolsLine == findLine(response.lines, "TOOLS:", 1)
      paramsLine == findLine(response.lines, "PARAMS:", 1)
      reasonLine == findLine(response.lines, "REASON:", 1)
  IN
  IF noTools(toolsLine)
  THEN [threw |-> FALSE,
        decision |-> [executeTools |-> FALSE,
                      toolCalls |-> <<>>,
                      reasoning |-> IF ~reasonLine.found \/ reasonLine.text = ""
                                    THEN "No tools needed based on classification"
                                    ELSE reasonLine.text,
                      route |-> "classification"]]
  ELSE
  LET toolCalls == [i \in 1..Len(toolsLine.items) |->
                      [toolName |-> toolsLine.items[i].name,
                       params |-> parseParams(paramsLine),
                       confidence |-> confidenceOf(toolsLine.items[i].conf)]]
  IN  [threw |-> FALSE,
       decision |-> [executeTools |-> someAbove(toolCalls, threshold),
                     toolCalls |-> toolCalls,
                     reasoning |-> IF ~reasonLine.found \/ reasonLine.text = ""
                                   THEN "Tools detected via classification"
                                   ELSE reasonLine.text,
                     route |-> "classification"]]

\* performClassificationRouting: one generate call of the classification
\* model, then the parse
performClassificationRouting(classification, threshold) ==
  IF classification.throws
  THEN [threw |-> TRUE, decision |-> NoDecision]
  ELSE parseClassificationResponse(classification.response, threshold)

----------------------------------------------------------------------------
(* LocalToolRouter.routeToolCalls *)

Fallback ==
  [executeTools |-> FALSE, toolCalls |-> <<>>,
   reasoning |-> "No clear tool usage patterns detected", route |-> "fallback"]

\* no fallback after a fault of the classification stage: the decision of the
\* pattern stage is returned as it is
routeToolCalls_keepsPatternDecision(cfg, input, classification) ==
  LET patternDecision == performPatternRouting(input)
      stage1 == /\ cfg.enablePatternRouting
                /\ someAbove(patternDecision.toolCalls, cfg.toolExecutionThreshold)
      stage2ran == /\ ~stage1
                   /\ cfg.enableClassificationRouting
                   /\ cfg.classificationModel # Null
      classified == performClassificationRouting(classification, cfg.toolExecutionThreshold)
      stage2 == /\ stage2ran
                /\ ~classified.threw
                /\ someAbove(classified.decision.toolCalls, cfg.toolExecutionThreshold)
  IN  [decision |-> IF stage1 THEN [patternDecision EXCEPT !.route = "pattern"]
                    ELSE IF stage2 THEN [classified.decision EXCEPT !.route = "classification"]
                    ELSE IF stage2ran /\ classified.threw /\ cfg.enablePatternRouting
                    THEN patternDecision
                    ELSE Fallback,
       patternRan |-> cfg.enablePatternRouting,
       patternDecision |-> IF cfg.enablePatternRouting THEN patternDecision ELSE NoDecision,
       classifyCalls |-> IF stage2ran THEN 1 ELSE 0,
       classificationThrew |-> stage2ran /\ classified.threw,
       classificationDecision |-> IF stage2ran /\ ~classified.threw
                                  THEN classified.decision ELSE NoDecision]

\* the stages in the wrong order: the classification model is asked first
routeToolCalls_classifiesFirst(cfg, input, classification) ==
  LET patternDecision == performPatternRouting(input)
      stage2ran == /\ cfg.enableClassificationRouting
                   /\ cfg.classificationModel # Null
      classified == performClassificationRouting(classification, cfg.toolExecutionThreshold)
      stage2 == /\ stage2ran
                /\ ~classified.threw
                /\ someAbove(classified.decision.toolCalls, cfg.toolExecutionThreshold)
      stage1 == /\ ~stage2
                /\ cfg.enablePatternRouting
                /\ someAbove(patternDecision.toolCalls, cfg.toolExecutionThreshold)
  IN  [decision |-> IF stage2 THEN [classified.decision EXCEPT !.route = "classification"]
                    ELSE IF stage1 THEN [patternDecision EXCEPT !.route = "pattern"]
                    ELSE Fallback,
       patternRan |-> cfg.enablePatternRouting,
       patternDecision |-> IF cfg.enablePatternRouting THEN patternDecision ELSE NoDecision,
       classifyCalls |-> IF stage2ran THEN 1 ELSE 0,
       classificationThrew |-> stage2ran /\ classified.threw,
       classificationDecision |-> IF stage2ran /\ ~classified.threw
                                  THEN classified.decision ELSE NoDecision]

\* the routing of one input: the decision returned, how many classification
\* model calls were made, and what each stage that ran produced
routeToolCalls(cfg, input, classification) ==
  LET patternDecision == performPatternRouting(input)
      stage1 == /\ cfg.enablePatternRouting
                /\ someAbove(patternDecision.toolCalls, cfg.toolExecutionThreshold)
      stage2ran == /\ ~stage1
                   /\ cfg.enableClassificationRouting
                   /\ cfg.classificationModel # Null
      classified == performClassificationRouting(classification, cfg.toolExecutionThreshold)
      stage2 == /\ stage2ran
                /\ ~classified.threw
                /\ someAbove(classified.decision.toolCalls, cfg.toolExecutionThreshold)
  IN  [decision |-> IF stage1 THEN [patternDecision EXCEPT !.route = "pattern"]
                    ELSE IF stage2 THEN [classified.decision EXCEPT !.route = "classification"]
                    ELSE Fallback,
       patternRan |-> cfg.enablePatternRouting,
       patternDecision |-> IF cfg.enablePatternRouting THEN patternDecision ELSE NoDecision,
       classifyCalls |-> IF stage2ran THEN 1 ELSE 0,
       classificationThrew |-> stage2ran /\ classified.threw,
       classificationDecision |-> IF stage2ran /\ ~classified.threw
                                  THEN classified.decision ELSE NoDecision]

----------------------------------------------------------------------------
(* RouterToolService *)

\* the tools of the router service's registry (registerBuiltinTools,
\* registerIntelligentTools)
routerTools ==
  {"write_file", "read_file", "run_shell_command", "analyze_project", "create_feature",
   "add_component", "build_api", "generate_code", "add_tests"}

\* command.toLowerCase().includes(pattern) for 'rm ', 'rmdir', 'del ', 'format',
\* 'sudo ', 'chmod 777'
includesDangerous(command) ==
  LET c == toLowerCase(command)
  IN  \/ matchesThenSpace(c, "rm")
      \/ matchesWord(c, "rmdir")
      \/ matchesThenSpace(c, "del")
      \/ matchesWord(c, "format")
      \/ matchesThenSpace(c, "sudo")
      \/ \E i \in 1..Len(c) : c[i] = "chmod" /\ i + 2 <= Len(c) /\ c[i + 1] = " "
                                /\ c[i + 2] = "777"

\* assessToolRisk(toolName, params); a run_shell_command without a command
\* dereferences undefined and throws
assessToolRisk(toolName, params) ==
  CASE toolName = "read_file" -> "safe"
    [] toolName = "write_file" -> "moderate"
    [] toolName = "run_shell_command" ->
         IF "command" \notin DOMAIN params THEN TypeError
         ELSE IF includesDangerous(params.command) THEN "dangerous"
         ELSE "moderate"
    [] toolName = "analyze_project" -> "safe"
    [] OTHER -> "moderate"

\* tool.execute(toolCall.params) inside the service's try/catch
routerExecute(toolCall, env) ==
  IF env.throws
  THEN [result |-> ToolResult(FALSE, "Tool execution failed", "thrown"), effect |-> NoEffect]
  ELSE IF env.ioOk
  THEN [result |-> ToolResult(TRUE, "done", Null),
        effect |-> [kind |-> toolCall.toolName, target |-> toolCall.params]]
  ELSE [result |-> ToolResult(FALSE, "failed", "operation failed"), effect |-> NoEffect]

\* does the service ask before it executes: if (this.permissionHandler)
asksPermission(handler) == handler # Null

\* a denial thrown to the caller instead of returned
routerExecuteToolCall_throwsDenial(toolCall, handler, granted, env) ==
  IF toolCall.toolName \notin routerTools
  THEN Outcome(<<>>, "none", NoResult, TRUE, NoEffect)
  ELSE
  LET run == routerExecute(toolCall, env)
  IN
  IF asksPermission(handler)
  THEN LET risk == assessToolRisk(toolCall.toolName, toolCall.params)
       IN  IF risk = TypeError
           THEN Outcome(<<>>, "none", NoResult, TRUE, NoEffect)
           ELSE IF ~granted
           THEN Outcome(<<"permissionHandler", "denied">>, risk, NoResult, TRUE, NoEffect)
           ELSE Outcome(<<"permissionHandler", "granted", "execute">>, risk, run.result,
                        FALSE, run.effect)
  ELSE Outcome(<<"execute">>, "none", run.result, FALSE, run.effect)

\* RouterToolService.executeToolCall(toolCall, routingDecision); granted is the
\* permission handler's answer if it is asked
routerExecuteToolCall(toolCall, handler, granted, env) ==
  IF toolCall.toolName \notin routerTools
  THEN Outcome(<<>>, "none", NoResult, TRUE, NoEffect)
  ELSE
  LET run == routerExecute(toolCall, env)
  IN
  IF asksPermission(handler)
  THEN LET risk == assessToolRisk(toolCall.toolName, toolCall.params)
       IN  IF risk = TypeError
           THEN Outcome(<<>>, "none", NoResult, TRUE, NoEffect)
           ELSE IF ~granted
           THEN Outcome(<<"permissionHandler", "denied">>, risk,
                        ToolResult(FALSE, "User denied permission", "User denied permission"),
                        FALSE, NoEffect)
           ELSE Outcome(<<"permissionHandler", "granted", "execute">>, risk, run.result,
                        FALSE, run.effect)
  ELSE Outcome(<<"execute">>, "none", run.result, FALSE, run.effect)

\* error.message of what executeToolCall throws for this call
thrownError(toolCall) ==
  IF toolCall.toolName \notin routerTools THEN "Unknown tool" ELSE TypeError

\* the loop without its try/catch: a thrown executeToolCall leaves no record
toolExecution_noCatch(toolCall, handler, granted, env) ==
  LET out == routerExecuteToolCall(toolCall, handler, granted, env)
  IN  [toolName |-> toolCall.toolName,
       params |-> toolCall.params,
       confidence |-> toolCall.confidence,
       handler |-> handler,
       granted |-> asksPermission(handler) /\ granted,
       events |-> out.events,
       effect |-> out.effect,
       caught |-> FALSE,
       result |-> out.result]

\* one pass of the loop of processUserInput: the RouterToolExecution pushed,
\* a thrown executeToolCall being caught and recorded as a failed execution
toolExecution(toolCall, handler, granted, env) ==
  LET out == routerExecuteToolCall(toolCall, handler, granted, env)
  IN  [toolName |-> toolCall.toolName,
       params |-> toolCall.params,
       confidence |-> toolCall.confidence,
       handler |-> handler,
       granted |-> asksPermission(handler) /\ granted,
       events |-> out.events,
       effect |-> out.effect,
       caught |-> out.threw,
       result |-> IF out.threw
                  THEN ToolResult(FALSE, "Tool execution failed", thrownError(toolCall))
                  ELSE out.result]

----------------------------------------------------------------------------
(* Inputs of the router *)

\* createOptimalConfig enables classification iff it found a model; a
\* caller's config may enable it without one
RouterConfigs ==
  {[toolExecutionThreshold |-> t, enablePatternRouting |-> p,
    enableClassificationRouting |-> m # Null, classificationModel |-> m] :
     t \in {70, 95}, p \in BOOLEAN, m \in {Null, "qwen2.5:0.5b"}}
  \cup {[toolExecutionThreshold |-> 70, enablePatternRouting |-> TRUE,
         enableClassificationRouting |-> TRUE, classificationModel |-> Null]}

\* which rules match the input text
MatchSets ==
  {{}} \cup {{i} : i \in 1..Len(Patterns)}
  \cup {{1, 2}, {4, 5}, {2, 3, 4, 5}}

Commands == {<<"ls", " ", "-la">>, <<"sudo", " ", "rm", " ", "-rf", " ", "/tmp/x">>}

Inputs ==
  {[matched |-> m, command |-> c] : m \in {x \in MatchSets : 5 \in x}, c \in Commands}
  \cup {[matched |-> m, command |-> <<>>] : m \in {x \in MatchSets : 5 \notin x}}

Line(tag, items) == [tag |-> tag, items |-> items, text |-> ""]

Text(tag, text) == [tag |-> tag, items |-> <<>>, text |-> text]

Pair(name, conf) == [name |-> name, conf |-> conf]

Response(lines) == [defined |-> TRUE, lines |-> lines]

Responses ==
  {Response(<<Line("TOOLS:", NONE), Text("REASON:", "just chatting")>>),
   Response(<<Line("TOOLS:", NONE)>>),
   Response(<<Text("other", "Sure, I can help")>>),
   Response(<<Line("TOOLS:", <<Pair("write_file", "0.9")>>),
              Line("PARAMS:", <<[key |-> "file_path", value |-> "hello.py"],
                                [key |-> "content", value |-> "print('hello')"]>>),
              Text("REASON:", "User wants to create a Python file")>>),
   Response(<<Line("TOOLS:", <<Pair("read_file", "0.5")>>)>>),
   Response(<<Line("TOOLS:", <<Pair("write_file", "high"), Pair("run_shell_command", "0.8")>>),
              Line("PARAMS:", <<[key |-> "file_path", value |-> "a.txt"],
                                [key |-> "file_path", value |-> "b.txt"],
                                [key |-> "", value |-> "x"]>>)>>),
   Response(<<Line("TOOLS:", <<Pair("read_file", "1.5"), Pair("foo_tool", Undefined)>>)>>),
   Response(<<Line("TOOLS:", <<Pair("analyze_project", "-1"), Pair("add_tests", "0.9")>>)>>),
   [defined |-> FALSE, lines |-> <<>>]}

Classifications ==
  {[throws |-> FALSE, response |-> r] : r \in Responses}
  \cup {[throws |-> TRUE, response |-> [defined |-> FALSE, lines |-> <<>>]]}

RouterEnvs == {[ioOk |-> TRUE, throws |-> FALSE], [ioOk |-> FALSE, throws |-> FALSE],
               [ioOk |-> TRUE, throws |-> TRUE]}

----------------------------------------------------------------------------
(* State and actions of the router service *)

NoRouting ==
  [decision |-> NoDecision, patternRan |-> FALSE, patternDecision |-> NoDecision,
   classifyCalls |-> 0, classificationThrew |-> FALSE,
   classificationDecision |-> NoDecision]

NoInput == [matched |-> {}, command |-> <<>>]

NoClassification == [throws |-> TRUE, response |-> [defined |-> FALSE, lines |-> <<>>]]

InitRouter ==
  /\ config \in RouterConfigs
  /\ routerPermissionHandler = Null
  /\ turn = [pc |-> "idle", input |-> NoInput, classification |-> NoClassification,
             routing |-> NoRouting, idx |-> 1, toolExecutions |-> <<>>,
             again |-> FALSE]

\* RouterToolService.setPermissionHandler
SetRouterPermissionHandler ==
  /\ variant = "RouterSession"
  /\ turn.pc = "idle"
  /\ routerPermissionHandler' = "set"
  /\ UNCHANGED <<config, turn, toolVars, sessionVars, turnVars>>

\* processUserInput up to its loop: the routing decision
ProcessUserInput ==
  /\ variant = "RouterSession"
  /\ turn.pc = "idle"
  /\ \E input \in Inputs :
     \E classification \in
          IF routeToolCalls(config, input, NoClassification).classifyCalls > 0
          THEN Classifications ELSE {NoClassification} :
       LET routing == routeToolCalls(config, input, classification)
           runs == routing.decision.executeTools /\ Len(routing.decision.toolCalls) > 0
       IN  turn' = [pc |-> IF runs THEN "executing" ELSE "idle",
                    input |-> input,
                    classification |-> classification,
                    routing |-> routing, idx |-> 1, toolExecutions |-> <<>>,
                    \* the pattern stage ran on this very input the turn before
                    again |-> turn.routing.patternRan /\ routing.patternRan
                              /\ input = turn.input]
  /\ UNCHANGED <<config, routerPermissionHandler, toolVars, sessionVars, turnVars>>

\* a break out of the loop on a denied call
afterToolCall_stopsOnDenial(idx, toolCalls, execution) ==
  IF idx = Len(toolCalls) \/ occurs(execution.events, "denied") THEN "idle"
  ELSE "executing"

\* for (const toolCall of routingDecision.toolCalls): where the turn stands
\* after pushing the execution of call idx
afterToolCall(idx, toolCalls, execution) ==
  IF idx = Len(toolCalls) THEN "idle" ELSE "executing"

\* one pass of the loop: the next tool call of the decision, in list order
ExecuteRoutedToolCall ==
  /\ variant = "RouterSession"
  /\ turn.pc = "executing"
  /\ \E granted \in BOOLEAN, env \in RouterEnvs :
       LET toolCalls == turn.routing.decision.toolCalls
           execution == toolExecution(toolCalls[turn.idx], routerPermissionHandler,
                                      granted, env)
       IN  turn' = [turn EXCEPT !.toolExecutions = Append(@, execution),
                                !.idx = @ + 1,
                                !.pc = afterToolCall(turn.idx, toolCalls, execution)]
  /\ UNCHANGED <<config, routerPermissionHandler, toolVars, sessionVars, turnVars>>

NextRouter ==
  \/ SetRouterPermissionHandler
  \/ ProcessUserInput
  \/ ExecuteRoutedToolCall

NextTools == SetPermissionHandler \/ ExecuteToolCall \/ OrchestrateToolCall

----------------------------------------------------------------------------
(* AiCliSession: token accounting *)

\* a message of the history: one text part of len characters; id tells the
\* messages apart, summary marks the synthetic summary message
Message(role, summary, id, len) == [role |-> role, summary |-> summary, id |-> id, len |-> len]

RECURSIVE sumLen(_, _)
sumLen(history, extra) ==
  IF history = <<>> THEN 0
  ELSE (IF Head(history).len > 0 THEN Head(history).len + extra ELSE 0)
       + sumLen(Tail(history), extra)

\* Math.ceil(chars / 3.5)
ceilDiv3_5(chars) == (2 * chars + 6) \div 7

\* OllamaContentGenerator.countTokens: extractTextFromContents appends a blank
\* to every non-empty text part
countTokens(history) == ceilDiv3_5(sumLen(history, 1))

\* estimateTokenCount: countTokens, or the character estimate when it throws
estimateTokenCount(history, countThrows) ==
  IF countThrows THEN ceilDiv3_5(sumLen(history, 0)) ELSE countTokens(history)

\* tokenCount > maxContextTokens * contextCompactionThreshold, the threshold
\* being 0.8
shouldCompactContext(tokenCount, maxTokens) == tokenCount * 10 > maxTokens * 8

\* slice(-3) in place of slice(-4)
lastFour_three(history) ==
  IF Len(history) <= 3 THEN history ELSE SubSeq(history, Len(history) - 2, Len(history))

\* slice(-4) and slice(0, -4)
lastFour(history) ==
  IF Len(history) <= 4 THEN history ELSE SubSeq(history, Len(history) - 3, Len(history))

beyondLastFour(history) ==
  IF Len(history) <= 4 THEN <<>> ELSE SubSeq(history, 1, Len(history) - 4)

----------------------------------------------------------------------------
(* AiCliSession.compactContext and addMessage *)

\* the text "[Previous conversation summary: " and "]" around the summary;
\* id is the number of the summary
summaryMessage(id, summaryLen) == Message("model", TRUE, id, 33 + summaryLen)

\* the summarization call outside any try: its exception leaves the method
compactContext_noCatch(st, summarization, countThrows) ==
  IF Len(st.conversationHistory) <= 4
  THEN [state |-> st, summarizeCalls |-> 0, outcome |-> "short", raised |-> FALSE]
  ELSE IF summarization.throws
  THEN [state |-> st, summarizeCalls |-> 1, outcome |-> "raised", raised |-> TRUE]
  ELSE IF summarization.len > 0
  THEN LET compacted == <<summaryMessage(st.compactionCount + 1, summarization.len)>>
                        \o lastFour(st.conversationHistory)
       IN  [state |-> [st EXCEPT !.conversationHistory = compacted,
                                 !.compactionCount = @ + 1,
                                 !.tokenCount = estimateTokenCount(compacted, countThrows)],
            summarizeCalls |-> 1, outcome |-> "summarized", raised |-> FALSE]
  ELSE [state |-> st, summarizeCalls |-> 1, outcome |-> "noText", raised |-> FALSE]

\* the catch branch counting its truncation as a compaction
compactContext_countsTruncation(st, summarization, countThrows) ==
  IF Len(st.conversationHistory) <= 4
  THEN [state |-> st, summarizeCalls |-> 0, outcome |-> "nothingToSummarize",
        raised |-> FALSE]
  ELSE IF summarization.throws
  THEN LET recentMessages == lastFour(st.conversationHistory)
       IN  [state |-> [st EXCEPT !.conversationHistory = recentMessages,
                                 !.compactionCount = @ + 1,
                                 !.tokenCount = estimateTokenCount(recentMessages,
                                                                   countThrows)],
            summarizeCalls |-> 1, outcome |-> "truncated", raised |-> FALSE]
  ELSE compactContext_noCatch(st, summarization, countThrows)

\* compactContext on session state st.  summarization is what the model call
\* does: it throws, or returns a text of some length (none when 0).  The
\* result is the new state, how many model calls were made, what happened and
\* whether an exception left the method.
compactContext(st, summarization, countThrows) ==
  IF Len(st.conversationHistory) <= 2
  THEN [state |-> st, summarizeCalls |-> 0, outcome |-> "short", raised |-> FALSE]
  ELSE
  LET messagesToSummarize == beyondLastFour(st.conversationHistory)
      recentMessages == lastFour(st.conversationHistory)
  IN
  IF Len(messagesToSummarize) = 0
  THEN [state |-> st, summarizeCalls |-> 0, outcome |-> "nothingToSummarize",
        raised |-> FALSE]
  ELSE IF summarization.throws
  THEN \* catch (error): just truncate
       [state |-> [st EXCEPT !.conversationHistory = recentMessages,
                             !.tokenCount = estimateTokenCount(recentMessages, countThrows)],
        summarizeCalls |-> 1, outcome |-> "truncated", raised |-> FALSE]
  ELSE IF summarization.len > 0
  THEN LET compacted == <<summaryMessage(st.compactionCount + 1, summarization.len)>>
                        \o recentMessages
       IN  [state |-> [st EXCEPT !.conversationHistory = compacted,
                                 !.compactionCount = @ + 1,
                                 !.tokenCount = estimateTokenCount(compacted, countThrows)],
            summarizeCalls |-> 1, outcome |-> "summarized", raised |-> FALSE]
  ELSE [state |-> st, summarizeCalls |-> 1, outcome |-> "noText", raised |-> FALSE]

NotCompacted(st) ==
  [state |-> st, summarizeCalls |-> 0, outcome |-> "notTriggered", raised |-> FALSE]

\* addMessage(content) on session state st
addMessage(st, maxTokens, content, summarization, countThrows) ==
  LET pushed == Append(st.conversationHistory, content)
      counted == [st EXCEPT !.conversationHistory = pushed,
                            !.tokenCount = estimateTokenCount(pushed, countThrows)]
  IN  IF shouldCompactContext(counted.tokenCount, maxTokens)
      THEN compactContext(counted, summarization, countThrows)
      ELSE NotCompacted(counted)

----------------------------------------------------------------------------
(* clearHistory, getState, updateSettings *)

\* getState: { ...this.state }, a new object holding the same field values
getState(st) == st

\* AiCliSession.clearHistory assigns the fields of this.state
clearHistory(st) ==
  [st EXCEPT !.conversationHistory = <<>>, !.tokenCount = 0, !.compactionCount = 0]

\* StructuredSession.clearHistory (and the same body in GeminiStyleSession,
\* RouterSession, ProfessionalSession) assigns the fields of the object that
\* getState returned; the result is the session's state and that local object
structuredClearHistory(st) ==
  LET local == getState(st)
  IN  [session |-> st,
       local |-> [local EXCEPT !.conversationHistory = <<>>, !.tokenCount = 0,
                               !.compactionCount = 0]]

\* updateSettings: { ...this.state.settings, ...newSettings }
updateSettings(st, newSettings) ==
  [st EXCEPT !.settings = [k \in DOMAIN st.settings |->
                             IF k \in DOMAIN newSettings THEN newSettings[k]
                             ELSE st.settings[k]]]

----------------------------------------------------------------------------
(* Inputs, state and actions of the session *)

MaxContextTokens == 50

MaxAdds == 7

MaxCompactions == 3

Contents == {[role |-> "user", len |-> 20], [role |-> "model", len |-> 60]}

Summarizations == {[throws |-> TRUE, len |-> 0], [throws |-> FALSE, len |-> 10],
                   [throws |-> FALSE, len |-> 0]}

SettingsUpdates == {[autoApproveLevel |-> "safe"]}

\* the state the constructor builds; settings is {}, its optional fields unset
InitialState ==
  [id |-> "session-1", conversationHistory |-> <<>>, currentModel |-> "qwen3:latest",
   settings |-> [autoApproveLevel |-> Undefined, preferredModel |-> Undefined],
   tokenCount |-> 0, compactionCount |-> 0]

\* characters of the text "[Switched to model: <displayName>]"
SwitchedLen == 30

NoOp ==
  [op |-> "none", beforeState |-> InitialState, pushed |-> <<>>, triggered |-> FALSE,
   summarization |-> [throws |-> FALSE, len |-> 0], summarizeCalls |-> 0,
   outcome |-> "none", raised |-> FALSE, afterCompaction |-> FALSE,
   modelName |-> "<none>", returned |-> "void", beforeMax |-> 0]

Variants == {"AiCliSession", "StructuredSession", "RouterSession"}

InitSession ==
  /\ variant \in Variants
  /\ state = InitialState
  /\ maxContextTokens = MaxContextTokens
  /\ conversationContext = <<>>
  /\ addCalls = 0
  /\ appendOnly = TRUE
  /\ lastOp = NoOp

\* did the operation replace history by a compaction (summary or truncation)
compactedBy(outcome) == outcome \in {"summarized", "truncated"}

\* addMessage(content)
AddMessage ==
  /\ addCalls < MaxAdds
  /\ \E content \in Contents, summarization \in Summarizations, countThrows \in BOOLEAN :
       LET msg == Message(content.role, FALSE, addCalls + 1, content.len)
           r == addMessage(state, maxContextTokens, msg, summarization, countThrows)
       IN  /\ state' = r.state
           /\ appendOnly' = (appendOnly /\ r.outcome = "notTriggered")
           /\ lastOp' = [op |-> "addMessage", beforeState |-> InitialState,
                         pushed |-> Append(state.conversationHistory, msg),
                         triggered |-> r.outcome # "notTriggered",
                         summarization |-> summarization,
                         summarizeCalls |-> r.summarizeCalls, outcome |-> r.outcome,
                         raised |-> r.raised, afterCompaction |-> FALSE,
                         modelName |-> "<none>", returned |-> "void", beforeMax |-> 0]
  /\ addCalls' = addCalls + 1
  /\ UNCHANGED <<variant, maxContextTokens, conversationContext, toolVars, routerVars, turnVars>>

\* clearHistory() of the session's class
ClearHistory ==
  /\ IF variant = "AiCliSession"
     THEN state' = clearHistory(state)
     ELSE state' = structuredClearHistory(state).session
  /\ conversationContext' = IF variant = "StructuredSession" THEN <<>>
                            ELSE conversationContext
  /\ appendOnly' = FALSE
  /\ lastOp' = [NoOp EXCEPT !.op = "clearHistory", !.beforeState = state]
  /\ UNCHANGED <<variant, maxContextTokens, addCalls, toolVars, routerVars, turnVars>>

\* updateSettings(newSettings)
UpdateSettings ==
  /\ \E newSettings \in SettingsUpdates :
       state' = updateSettings(state, newSettings)
  /\ lastOp' = [NoOp EXCEPT !.op = "updateSettings"]
  /\ UNCHANGED <<variant, maxContextTokens, conversationContext, addCalls, appendOnly,
                 toolVars, routerVars, turnVars>>

\* compactContext() applied on its own to the session as it stands
CompactContext ==
  /\ state.compactionCount < MaxCompactions
  /\ \E summarization \in Summarizations, countThrows \in BOOLEAN :
       LET r == compactContext(state, summarization, countThrows)
       IN  /\ state' = r.state
           /\ lastOp' = [op |-> "compactContext", beforeState |-> state,
                         pushed |-> state.conversationHistory, triggered |-> TRUE,
                         summarization |-> summarization,
                         summarizeCalls |-> r.summarizeCalls, outcome |-> r.outcome,
                         raised |-> r.raised,
                         afterCompaction |->
                           lastOp.op \in {"addMessage", "compactContext"}
                           /\ compactedBy(lastOp.outcome),
                         modelName |-> "<none>", returned |-> "void", beforeMax |-> 0]
  /\ appendOnly' = FALSE
  /\ UNCHANGED <<variant, maxContextTokens, conversationContext, addCalls, toolVars,
                 routerVars, turnVars>>

\* the model cache of OllamaModelManager: the context length of each model the
\* backend has (lengths on the scale of MaxContextTokens)
Catalog ==
  [name \in {"qwen3:latest", "phi3:mini"} |->
     IF name = "qwen3:latest" THEN MaxContextTokens ELSE MaxContextTokens \div 2]

\* OllamaModelManager.getModel(modelName): the cache entry, or null (found
\* false)
getModel(modelName) ==
  IF modelName \in DOMAIN Catalog
  THEN [found |-> TRUE, maxContextLength |-> Catalog[modelName]]
  ELSE [found |-> FALSE, maxContextLength |-> 0]

ModelNames == DOMAIN Catalog \cup {"no-such-model"}

\* AiCliSession.switchModel(modelName): what it returns, whether it raised, and
\* the state and config.maxContextTokens it leaves; message is the
\* "[Switched to model: ...]" message it adds
switchModel(st, maxTokens, modelName, message, summarization, countThrows) ==
  IF ~getModel(modelName).found
  THEN [returned |-> "false", raised |-> FALSE, state |-> st,
        maxContextTokens |-> maxTokens, added |-> FALSE, outcome |-> "notTriggered"]
  ELSE LET switched == [st EXCEPT !.currentModel = modelName]
           r == addMessage(switched, getModel(modelName).maxContextLength, message,
                           summarization, countThrows)
       IN  [returned |-> "true", raised |-> FALSE, state |-> r.state,
            maxContextTokens |-> getModel(modelName).maxContextLength,
            added |-> TRUE,
            outcome |-> r.outcome]

\* OllamaApiService.switchModel(modelName) throws for a model the backend lacks
apiSwitchModelThrows(modelName) == modelName \notin DOMAIN Catalog

\* what an overriding switchModel leaves when it throws "Model switching failed"
switchFailed(st, maxTokens) ==
  [returned |-> "none", raised |-> TRUE, state |-> st,
   maxContextTokens |-> maxTokens, added |-> FALSE, outcome |-> "notTriggered"]

\* StructuredSession.switchModel(modelName)
structuredSwitchModel(st, maxTokens, modelName, message, summarization, countThrows) ==
  IF apiSwitchModelThrows(modelName)
  THEN switchFailed(st, maxTokens)
  ELSE LET success == switchModel(st, maxTokens, modelName, message, summarization,
                                  countThrows)
       IN  IF success.returned = "false" THEN switchFailed(st, maxTokens)
           ELSE success

\* RouterSession.switchModel(modelName)
routerSwitchModel(st, maxTokens, modelName, message, summarization, countThrows) ==
  LET success == switchModel(st, maxTokens, modelName, message, summarization,
                             countThrows)
  IN  IF success.returned = "false" THEN switchFailed(st, maxTokens) ELSE success

\* switchModel(modelName) of the session's class
SwitchModel ==
  /\ addCalls < MaxAdds
  /\ \E modelName \in ModelNames, summarization \in Summarizations,
        countThrows \in BOOLEAN :
       LET message == Message("model", FALSE, addCalls + 1, SwitchedLen)
           r == IF variant = "AiCliSession"
                THEN switchModel(state, maxContextTokens, modelName, message,
                                 summarization, countThrows)
                ELSE IF variant = "StructuredSession"
                THEN structuredSwitchModel(state, maxContextTokens, modelName,
                                           message, summarization, countThrows)
                ELSE routerSwitchModel(state, maxContextTokens, modelName, message,
                                       summarization, countThrows)
       IN  /\ state' = r.state
           /\ maxContextTokens' = r.maxContextTokens
           /\ addCalls' = IF r.added THEN addCalls + 1 ELSE addCalls
           /\ appendOnly' = (appendOnly /\ r.outcome = "notTriggered")
           /\ lastOp' = [NoOp EXCEPT !.op = "switchModel", !.beforeState = state,
                                     !.modelName = modelName,
                                     !.returned = r.returned, !.raised = r.raised,
                                     !.beforeMax = maxContextTokens,
                                     !.outcome = r.outcome]
  /\ UNCHANGED <<variant, conversationContext, toolVars, routerVars, turnVars>>

----------------------------------------------------------------------------
(* A turn, await by await.  Every await of addMessage, compactContext and the
   turn operations is a point where another turn of the same session can run;
   the code between two awaits runs without interruption. *)

MaxTurns == 2

Turns == 1 .. 2

\* a turn's phase names the message it is adding (intelligent: the user message
\* generateResponseWithIntelligentTools adds); the characters of its text: the
\* parts of a function call and of a function response carry no text
TextLen ==
  [intelligent |-> 30, user |-> 30, model |-> 30, error |-> 30, call |-> 0,
   response |-> 0]

\* const maxAttempts = 5
MaxAttempts == 5

\* what a turn has done so far: the completions it requested (attempts), the
\* tool calls of its function-calling loop (calls), the tool calls it submitted
\* to the registry, the entries of the toolExecutions list it will return, the
\* user messages it added, the id of its latest functionCall message, and
\* whether each functionResponse message was pushed right behind it
NoLog ==
  [attempts |-> 0, calls |-> 0, submitted |-> 0, reported |-> 0, userAdds |-> 0,
   callId |-> 0, adjacent |-> TRUE]

\* a turn that is not running
IdleTurn ==
  [pc |-> "idle", phase |-> "none", counted |-> 0, snapshot |-> <<>>,
   functions |-> FALSE, fault |-> "none", log |-> NoLog]

NoTurn ==
  [ended |-> FALSE, fault |-> "none", raised |-> FALSE, failureRecorded |-> FALSE,
   displayed |-> FALSE, log |-> NoLog]

NoCompaction == [installed |-> FALSE, overlapped |-> FALSE, lost |-> {}]

InitTurns ==
  /\ procs = [p \in Turns |-> IdleTurn]
  /\ isLoading = FALSE
  /\ renderedLoading = FALSE
  /\ turnsStarted = 0
  /\ lastCompaction = NoCompaction
  /\ lastTurn = NoTurn

\* App drives a StructuredSession; the base session is called directly
drivenByApp == variant = "StructuredSession"

elements(history) == {history[i] : i \in 1 .. Len(history)}

\* the turn goes on: the session, the turn and the number of addMessage calls
goesOn(st, n, proc) == [state |-> st, adds |-> n, proc |-> proc, turn |-> NoTurn]

\* the turn operation is left, by a return or by an exception
leaves(st, n, proc, raised) ==
  [state |-> st, adds |-> n, proc |-> IdleTurn,
   turn |-> [ended |-> TRUE, fault |-> proc.fault, raised |-> raised,
             failureRecorded |-> proc.phase = "error",
             displayed |-> raised /\ drivenByApp,
             log |-> [proc.log EXCEPT !.callId = 0]]]

\* addMessage up to its first await: the message is pushed and countTokens is
\* called on the history as it is now
pushMessage(st, n, proc, phase, role) ==
  LET before == st.conversationHistory
      history == Append(before, Message(role, FALSE, n + 1, TextLen[phase]))
      behindCall == /\ before # <<>>
                    /\ before[Len(before)].id = proc.log.callId
                    /\ before[Len(before)].role = "model"
                    /\ ~before[Len(before)].summary
  IN  goesOn([st EXCEPT !.conversationHistory = history], n + 1,
             [proc EXCEPT !.pc = "counting", !.phase = phase,
                          !.counted = countTokens(history), !.snapshot = <<>>,
                          !.log.userAdds = IF role = "user" THEN @ + 1 ELSE @,
                          !.log.callId = IF phase = "call" THEN n + 1 ELSE 0,
                          !.log.adjacent = IF phase = "response"
                                           THEN @ /\ behindCall ELSE @])

\* the follow-up request keeps its function declarations
afterAddMessage_keepsFunctions(st, n, proc) ==
  LET done == [proc EXCEPT !.counted = 0, !.snapshot = <<>>]
      completing == [done EXCEPT !.pc = "completing", !.log.attempts = @ + 1]
  IN  CASE proc.phase = "intelligent" -> goesOn(st, n, [done EXCEPT !.pc = "orchestrating"])
        [] proc.phase = "user" -> goesOn(st, n, completing)
        [] proc.phase = "call" -> pushMessage(st, n, done, "response", "function")
        [] proc.phase = "response" ->
             IF proc.log.attempts < MaxAttempts
             THEN goesOn(st, n, completing)
             ELSE leaves(st, n, done, FALSE)
        [] OTHER -> leaves(st, n, done, FALSE)

\* what the turn does once an addMessage returned, up to its next await
afterAddMessage(st, n, proc) ==
  LET done == [proc EXCEPT !.counted = 0, !.snapshot = <<>>]
      completing == [done EXCEPT !.pc = "completing", !.log.attempts = @ + 1]
  IN  CASE proc.phase = "intelligent" -> goesOn(st, n, [done EXCEPT !.pc = "orchestrating"])
        [] proc.phase = "user" -> goesOn(st, n, completing)
        [] proc.phase = "call" -> pushMessage(st, n, done, "response", "function")
        [] proc.phase = "response" ->
             \* request.functions = []; continue
             IF proc.log.attempts < MaxAttempts
             THEN goesOn(st, n, [completing EXCEPT !.functions = FALSE])
             ELSE leaves(st, n, done, FALSE)
        [] OTHER -> leaves(st, n, done, FALSE)

\* the rest of compactContext, and of its addMessage, once the
\* estimateTokenCount after the replacement resolved
afterRecount(st, n, proc, countThrows) ==
  afterAddMessage([st EXCEPT !.tokenCount =
                     IF countThrows
                     THEN estimateTokenCount(st.conversationHistory, TRUE)
                     ELSE proc.counted], n, proc)

\* the rest of addMessage once estimateTokenCount resolved: compactContext up to
\* its await of the summary, or the return
afterEstimate(st, maxTokens, n, proc, countThrows) ==
  LET tokenCount == IF countThrows
                    THEN estimateTokenCount(st.conversationHistory, TRUE)
                    ELSE proc.counted
      counted == [st EXCEPT !.tokenCount = tokenCount]
  IN  IF /\ shouldCompactContext(tokenCount, maxTokens)
         /\ Len(st.conversationHistory) > 2
         /\ Len(beyondLastFour(st.conversationHistory)) > 0
      THEN goesOn(counted, n, [proc EXCEPT !.pc = "summarizing",
                                           !.snapshot = st.conversationHistory])
      ELSE afterAddMessage(counted, n, proc)

\* compactContext once the summary call resolved: recentMessages is the slice
\* taken before the await
afterSummary(st, n, proc, summarization) ==
  LET recentMessages == lastFour(proc.snapshot)
      compacted == <<summaryMessage(st.compactionCount + 1, summarization.len)>>
                   \o recentMessages
  IN  IF summarization.throws
      THEN goesOn([st EXCEPT !.conversationHistory = recentMessages], n,
                  [proc EXCEPT !.pc = "recounting",
                               !.counted = countTokens(recentMessages)])
      ELSE IF summarization.len > 0
      THEN goesOn([st EXCEPT !.conversationHistory = compacted,
                             !.compactionCount = @ + 1], n,
                  [proc EXCEPT !.pc = "recounting",
                               !.counted = countTokens(compacted)])
      ELSE afterAddMessage(st, n, proc)

\* a compaction that began on history snapshot replaced history before by
\* history after: were messages added meanwhile, and which of them are gone
replaced(snapshot, before, after) ==
  LET added == elements(before) \ elements(snapshot)
  IN  [installed |-> TRUE, overlapped |-> added # {},
       lost |-> added \ elements(after)]

\* the turn's step took the session and the turn to r
stepsTo(p, r) ==
  /\ state' = r.state
  /\ addCalls' = r.adds
  /\ procs' = [procs EXCEPT ![p] = r.proc]
  /\ appendOnly' = (appendOnly /\ \E k \in 0 .. Len(r.state.conversationHistory) :
                      SubSeq(r.state.conversationHistory, 1, k) = state.conversationHistory)
  /\ IF r.turn.ended
     THEN /\ lastTurn' = r.turn
          /\ isLoading' = IF drivenByApp THEN FALSE ELSE isLoading
     ELSE UNCHANGED <<lastTurn, isLoading>>

\* App.handleMessageSubmit up to the first await of the turn operation, or the
\* turn operation of the base session called directly
Submit(p) ==
  /\ turnsStarted < MaxTurns
  /\ procs[p].pc = "idle"
  /\ \A q \in Turns : q < p => procs[q].pc # "idle"   \* the first free slot
  /\ drivenByApp => ~renderedLoading
  /\ LET r == pushMessage(state, addCalls,
                          [IdleTurn EXCEPT !.functions = drivenByApp],
                          IF drivenByApp THEN "intelligent" ELSE "user", "user")
     IN  /\ state' = r.state
         /\ addCalls' = r.adds
         /\ procs' = [procs EXCEPT ![p] = r.proc]
  /\ isLoading' = IF drivenByApp THEN TRUE ELSE isLoading
  /\ turnsStarted' = turnsStarted + 1
  /\ UNCHANGED <<variant, maxContextTokens, conversationContext, appendOnly, lastOp,
                 renderedLoading, lastCompaction, lastTurn, toolVars, routerVars>>

\* App renders again: the submit handler is rebuilt over the current isLoading
Render ==
  /\ renderedLoading # isLoading
  /\ renderedLoading' = isLoading
  /\ UNCHANGED <<toolVars, routerVars, sessionVars, procs, isLoading, turnsStarted,
                 lastCompaction, lastTurn>>

\* estimateTokenCount of addMessage resolves
Counted(p) ==
  /\ procs[p].pc = "counting"
  /\ \E countThrows \in BOOLEAN :
       stepsTo(p, afterEstimate(state, maxContextTokens, addCalls, procs[p], countThrows))
  /\ UNCHANGED <<variant, maxContextTokens, conversationContext, lastOp,
                 renderedLoading, turnsStarted, lastCompaction, toolVars, routerVars>>

\* the summary call of compactContext resolves
Summarized(p) ==
  /\ procs[p].pc = "summarizing"
  /\ \E summarization \in Summarizations :
       LET r == afterSummary(state, addCalls, procs[p], summarization)
       IN  /\ stepsTo(p, r)
           /\ lastCompaction' =
                IF r.proc.pc = "recounting"
                THEN replaced(procs[p].snapshot, state.conversationHistory,
                              r.state.conversationHistory)
                ELSE lastCompaction
  /\ UNCHANGED <<variant, maxContextTokens, conversationContext, lastOp,
                 renderedLoading, turnsStarted, toolVars, routerVars>>

\* estimateTokenCount of compactContext resolves
Recounted(p) ==
  /\ procs[p].pc = "recounting"
  /\ \E countThrows \in BOOLEAN :
       stepsTo(p, afterRecount(state, addCalls, procs[p], countThrows))
  /\ UNCHANGED <<variant, maxContextTokens, conversationContext, lastOp,
                 renderedLoading, turnsStarted, lastCompaction, toolVars, routerVars>>

\* what orchestrateToolCall did: it detected no tool call, or it submitted the
\* detected call to the registry, which ran it with success or returned a
\* failed result (a denial, a failed validation, a failed execution)
Orchestrations == {"noToolCall", "executed", "failed"}

\* generateResponseWithIntelligentTools once orchestrateToolCall resolved: on
\* success its response is added and the one execution returned; otherwise
\* generateResponseWithTools takes over, adds the user message and starts an
\* empty toolExecutions list
generateResponseWithIntelligentTools(st, n, proc, orchestrated) ==
  LET submitted == IF orchestrated = "noToolCall" THEN 0 ELSE 1
  IN  IF orchestrated = "executed"
      THEN pushMessage(st, n, [proc EXCEPT !.log.submitted = @ + submitted,
                                           !.log.reported = 1], "model", "model")
      ELSE pushMessage(st, n, [proc EXCEPT !.log.submitted = @ + submitted,
                                           !.log.reported = 0], "user", "user")

\* toolOrchestrator.orchestrateToolCall resolves
Orchestrated(p) ==
  /\ procs[p].pc = "orchestrating"
  /\ \E orchestrated \in Orchestrations :
       stepsTo(p, generateResponseWithIntelligentTools(state, addCalls, procs[p],
                                                       orchestrated))
  /\ UNCHANGED <<variant, maxContextTokens, conversationContext, lastOp,
                 renderedLoading, turnsStarted, lastCompaction, toolVars, routerVars>>

\* the context array an ApiResponse carries
ApiContext == <<1>>

CompletionOutcomes == {"throws", "functionCall", "text", "noText"}

\* AiCliSession.generateResponse once generateContent resolved
generateResponse(st, n, proc, completion) ==
  CASE completion = "throws" ->
         pushMessage(st, n, [proc EXCEPT !.fault = "initial"], "error", "model")
    [] completion = "text" -> pushMessage(st, n, proc, "model", "model")
    [] OTHER -> leaves(st, n, proc, FALSE)

\* StructuredSession.generateResponseWithTools once apiService.generateContent
\* resolved; a function call is only looked for while request.functions is not
\* empty, so the loop ends before maxAttempts
generateResponseWithTools(st, n, proc, completion) ==
  CASE completion = "throws" ->
         leaves(st, n, [proc EXCEPT !.fault = IF proc.functions THEN "initial"
                                              ELSE "followup"], TRUE)
    [] completion = "functionCall" ->
         \* executeFunctionCall, toolExecutions.push, then the two messages
         pushMessage(st, n, [proc EXCEPT !.log.calls = @ + 1,
                                         !.log.submitted = @ + 1,
                                         !.log.reported = @ + 1], "call", "model")
    [] completion = "text" -> pushMessage(st, n, proc, "model", "model")
    [] OTHER -> leaves(st, n, proc, FALSE)

\* the completion of the turn resolves
Completed(p) ==
  /\ procs[p].pc = "completing"
  /\ \E completion \in CompletionOutcomes :
       /\ completion = "functionCall" => drivenByApp /\ procs[p].functions
       /\ stepsTo(p, IF drivenByApp
                     THEN generateResponseWithTools(state, addCalls, procs[p], completion)
                     ELSE generateResponse(state, addCalls, procs[p], completion))
       /\ conversationContext' = IF drivenByApp /\ completion # "throws"
                                 THEN ApiContext ELSE conversationContext
  /\ UNCHANGED <<variant, maxContextTokens, lastOp, renderedLoading, turnsStarted,
                 lastCompaction, toolVars, routerVars>>

NextTurns ==
  \/ \E p \in Turns : Submit(p)
  \/ Render
  \/ \E p \in Turns : Counted(p)
  \/ \E p \in Turns : Summarized(p)
  \/ \E p \in Turns : Recounted(p)
  \/ \E p \in Turns : Orchestrated(p)
  \/ \E p \in Turns : Completed(p)

NextSession == AddMessage \/ ClearHistory \/ UpdateSettings

NextSwitch == SwitchModel

NextCompact == AddMessage \/ CompactContext

----------------------------------------------------------------------------
(* Specifications *)

Init == InitTools /\ InitRouter /\ InitSession /\ InitTurns

DefaultConfig ==
  [toolExecutionThreshold |-> 70, enablePatternRouting |-> TRUE,
   enableClassificationRouting |-> TRUE, classificationModel |-> "qwen2.5:0.5b"]

\* the tool registry as StructuredSession drives it
InitRegistry == Init /\ config = DefaultConfig /\ variant = "StructuredSession"

Spec == InitRegistry /\ [][NextTools]_vars

\* the router and the router tool service as RouterSession drives them, under
\* every router configuration
InitRouting == Init /\ variant = "RouterSession"

SpecRouter == InitRouting /\ [][NextRouter]_vars

\* both confirmation gates: a StructuredSession with its registry, or a
\* RouterSession with its router service
InitGate == Init /\ config = DefaultConfig /\ variant # "AiCliSession"

NextGate == NextTools \/ NextRouter

SpecGate == InitGate /\ [][NextGate]_vars

\* the session of each class
InitSessions == Init /\ config = DefaultConfig

SpecSession == InitSessions /\ [][NextSession]_vars

\* the session of each class with its model switched
SpecSwitch == InitSessions /\ [][NextSwitch]_vars

\* turns of the base session and of the StructuredSession App drives
InitTurnsOf == Init /\ config = DefaultConfig /\ variant # "RouterSession"

SpecTurns == InitTurnsOf /\ [][NextTurns]_vars

\* the base session with compactContext also applied on its own
InitCompact == Init /\ config = DefaultConfig /\ variant = "AiCliSession"

SpecCompact == InitCompact /\ [][NextCompact]_vars

----------------------------------------------------------------------------
(* Properties of the confirmation gates *)

risky == {"moderate", "dangerous"}

\* C1: in ToolRegistry.executeToolCall a call whose confirmation details carry
\* risk moderate or dangerous has its execute run only after the permission
\* handler was called for it and answered true.
ExecuteOnlyAfterGrant ==
  (/\ lastCall.outcome.risk \in risky
   /\ \/ occurs(lastCall.outcome.events, "execute")
      \/ lastCall.outcome.effect # NoEffect)
  => /\ lastCall.handler # Null
     /\ lastCall.approved
     /\ precedes(lastCall.outcome.events, "permissionHandler", "granted")
     /\ precedes(lastCall.outcome.events, "granted", "execute")

\* a moderate or dangerous call was granted and wrote its file
GrantedRiskyCallExecuted ==
  /\ lastCall.outcome.risk \in risky
  /\ lastCall.approved
  /\ occurs(lastCall.outcome.events, "execute")
  /\ lastCall.outcome.effect.kind = "write"

\* C2: with no confirmation handler configured a call that is not safe is
\* never executed, in the registry and in the router service alike: it ends
\* with a failed result and execute is not invoked.
NoHandlerNoExecution ==
  /\ (lastCall.handler = Null /\ lastCall.outcome.risk \in risky)
     => /\ ~occurs(lastCall.outcome.events, "execute")
        /\ ~lastCall.outcome.result.success
  /\ \A i \in 1..Len(turn.toolExecutions) :
       LET e == turn.toolExecutions[i]
       IN  (e.handler = Null /\ assessToolRisk(e.toolName, e.params) \in risky)
           => /\ ~occurs(e.events, "execute")
              /\ ~e.result.success

\* C3: if validateParams of a registered tool returns an error then
\* executeToolCall returns success = false and calls neither the permission
\* handler nor execute.
ValidationErrorStopsTheCall ==
  lastCall.validationError \notin {Null, TypeError}
  => /\ ~lastCall.outcome.threw
     /\ ~lastCall.outcome.result.success
     /\ ~occurs(lastCall.outcome.events, "permissionHandler")
     /\ ~occurs(lastCall.outcome.events, "execute")
     /\ lastCall.outcome.effect = NoEffect

\* a call whose parameters were rejected, made with a handler that would
\* have approved it
RejectedCallReturned ==
  /\ lastCall.validationError \notin {Null, TypeError}
  /\ lastCall.handler # Null
  /\ lastCall.approved
  /\ ~lastCall.outcome.result.success

\* the registry asked its handler about the latest call and was told no
registryDenied ==
  /\ occurs(lastCall.outcome.events, "shouldConfirmExecute")
  /\ lastCall.outcome.risk # "none"
  /\ lastCall.handler # Null
  /\ ~lastCall.approved

\* the router service asked its handler about execution e and was told no
routerDenied(e) ==
  /\ e.toolName \in routerTools
  /\ e.handler # Null
  /\ assessToolRisk(e.toolName, e.params) # TypeError
  /\ ~e.granted

\* C4: a call the confirmation handler denies resolves to a ToolResult with
\* success = false that describes the denial; execute is not invoked and no
\* exception reaches the caller, in the registry and in the router service.
DenialIsAFailedResult ==
  /\ registryDenied
     => /\ ~lastCall.outcome.threw
        /\ ~lastCall.outcome.result.success
        /\ lastCall.outcome.result.error = "User cancelled operation"
        /\ ~occurs(lastCall.outcome.events, "execute")
        /\ lastCall.outcome.effect = NoEffect
  /\ \A i \in 1..Len(turn.toolExecutions) :
       LET e == turn.toolExecutions[i]
       IN  routerDenied(e)
           => /\ ~e.caught
              /\ ~e.result.success
              /\ e.result.error = "User denied permission"
              /\ ~occurs(e.events, "execute")
              /\ e.effect = NoEffect

\* the registry's handler denied a shell command
RegistryCallDenied ==
  /\ registryDenied
  /\ lastCall.toolName = "run_shell_command"
  /\ occurs(lastCall.outcome.events, "denied")

----------------------------------------------------------------------------
(* Properties of the session *)

\* C5: after clearHistory, of the base session and of each class overriding
\* it, the history is empty and tokenCount and compactionCount are 0, while
\* id, currentModel and settings are as before.
ClearHistoryResets ==
  lastOp.op = "clearHistory"
  => /\ state.conversationHistory = <<>>
     /\ state.tokenCount = 0
     /\ state.compactionCount = 0
     /\ state.id = lastOp.beforeState.id
     /\ state.currentModel = lastOp.beforeState.currentModel
     /\ state.settings = lastOp.beforeState.settings

\* the last four messages of what addMessage pushed onto
keptMessages ==
  SubSeq(lastOp.pushed, Len(lastOp.pushed) - 3, Len(lastOp.pushed))

\* C6 as stated: N addMessage calls that never find the threshold exceeded
\* leave N messages, and an addMessage that finds it exceeded leaves exactly
\* 5 messages, a summary followed by the last 4.
CompactionLeavesFive ==
  /\ appendOnly => Len(state.conversationHistory) = addCalls
  /\ (lastOp.op = "addMessage" /\ lastOp.triggered)
     => /\ Len(state.conversationHistory) = 5
        /\ state.conversationHistory[1].summary
        /\ SubSeq(state.conversationHistory, 2, 5) = keptMessages

\* C6 amended: N addMessage calls that never find the threshold exceeded leave
\* N messages; an addMessage that finds it exceeded leaves a summary followed
\* by the last 4 messages when there were more than 4 and the summarization
\* returned text, the last 4 alone when the summarization threw, and the
\* history as pushed otherwise.
HistoryAfterAddMessage ==
  /\ appendOnly => Len(state.conversationHistory) = addCalls
  /\ (lastOp.op = "addMessage" /\ lastOp.triggered)
     => IF Len(lastOp.pushed) <= 4
        THEN state.conversationHistory = lastOp.pushed
        ELSE IF lastOp.summarization.throws
        THEN state.conversationHistory = keptMessages
        ELSE IF lastOp.summarization.len > 0
        THEN /\ Len(state.conversationHistory) = 5
             /\ state.conversationHistory[1].summary
             /\ SubSeq(state.conversationHistory, 2, 5) = keptMessages
        ELSE state.conversationHistory = lastOp.pushed

\* an addMessage found the threshold exceeded with more than 4 messages and
\* the summary was installed
SummaryInstalled ==
  /\ lastOp.op = "addMessage"
  /\ lastOp.triggered
  /\ Len(lastOp.pushed) > 5
  /\ ~lastOp.summarization.throws
  /\ lastOp.summarization.len > 0
  /\ Len(state.conversationHistory) = 5

\* C7: compactContext applied a second time to a session just compacted,
\* no message added in between, leaves history and compactionCount as they
\* were.
CompactionIdempotent ==
  (lastOp.op = "compactContext" /\ lastOp.afterCompaction)
  => /\ state.conversationHistory = lastOp.beforeState.conversationHistory
     /\ state.compactionCount = lastOp.beforeState.compactionCount

\* C8: when addMessage triggers compaction and the summarization call throws,
\* history becomes exactly its last 4 messages, tokenCount is recomputed over
\* them and addMessage does not raise; an addMessage makes at most one
\* compaction attempt.
SummarizationFailureTruncates ==
  lastOp.op = "addMessage"
  => /\ lastOp.summarizeCalls <= 1
     /\ ~lastOp.raised
     /\ (/\ lastOp.triggered
         /\ Len(lastOp.pushed) > 4
         /\ lastOp.summarization.throws)
        => /\ lastOp.summarizeCalls = 1
           /\ state.conversationHistory = keptMessages
           /\ state.tokenCount \in {ceilDiv3_5(sumLen(keptMessages, 1)),
                                    ceilDiv3_5(sumLen(keptMessages, 0))}

\* an addMessage whose summarization threw returned with 4 messages
TruncatedAfterThrow ==
  /\ lastOp.op = "addMessage"
  /\ lastOp.triggered
  /\ Len(lastOp.pushed) > 4
  /\ lastOp.summarization.throws
  /\ Len(state.conversationHistory) = 4

----------------------------------------------------------------------------
(* Properties of the router *)

decided == turn.routing.decision

\* C9: every RoutingDecision that routeToolCalls returns has executeTools
\* true exactly when some entry of toolCalls has a confidence of at least
\* toolExecutionThreshold.
ExecuteToolsIffAboveThreshold ==
  turn.routing # NoRouting
  => (decided.executeTools
      <=> \E i \in 1..Len(decided.toolCalls) :
            decided.toolCalls[i].confidence >= config.toolExecutionThreshold)

\* a decision to execute that also lists a call below the threshold
DecisionWithCallBelowThreshold ==
  /\ turn.routing # NoRouting
  /\ decided.executeTools
  /\ \E i \in 1..Len(decided.toolCalls) :
       decided.toolCalls[i].confidence < config.toolExecutionThreshold

\* the classification stage ran and the model answered TOOLS: NONE with a
\* REASON line
answeredNone ==
  /\ turn.routing.classifyCalls = 1
  /\ ~turn.classification.throws
  /\ turn.classification.response
       = Response(<<Line("TOOLS:", NONE), Text("REASON:", "just chatting")>>)

\* C10 as stated: when the classification stage runs and the answer names no
\* tool, the turn's RoutingDecision has executeTools = false, no toolCalls
\* and route = classification.
ClassifiedNoneKeepsRoute ==
  answeredNone
  => /\ ~decided.executeTools
     /\ decided.toolCalls = <<>>
     /\ decided.route = "classification"

\* C10 amended: when the classification stage runs and the answer names no
\* tool, the turn's RoutingDecision has executeTools = false, no toolCalls
\* and route = fallback; the parsed answer, with route = classification and
\* the REASON text, is not the one returned.
ClassifiedNoneFallsBack ==
  answeredNone
  => /\ ~decided.executeTools
     /\ decided.toolCalls = <<>>
     /\ decided.route = "fallback"
     /\ turn.routing.classificationDecision.route = "classification"
     /\ turn.routing.classificationDecision.reasoning = "just chatting"

\* a turn whose classification answered TOOLS: NONE
NoneAnswerRouted ==
  /\ answeredNone
  /\ decided.route = "fallback"

----------------------------------------------------------------------------
(* Further properties of the router *)

\* C11: every toolCall of every RoutingDecision, from the pattern rules or
\* from a parsed classification response, has a confidence in [0,1] (0 to
\* 100 hundredths).
ConfidenceWithinUnitInterval ==
  /\ turn.routing # NoRouting
     => \A i \in 1..Len(decided.toolCalls) :
          /\ decided.toolCalls[i].confidence >= 0
          /\ decided.toolCalls[i].confidence <= 100
  /\ turn.routing.classificationDecision # NoDecision
     => \A i \in 1..Len(turn.routing.classificationDecision.toolCalls) :
          /\ turn.routing.classificationDecision.toolCalls[i].confidence >= 0
          /\ turn.routing.classificationDecision.toolCalls[i].confidence <= 100


\* C12: within one turn the detected tool calls are executed in order of
\* descending confidence, ties in detection order, and the list of tool
\* executions returned is in that order.
ExecutedByDescendingConfidence ==
  \A i \in 1..Len(turn.toolExecutions) :
    \A j \in 1..Len(turn.toolExecutions) :
      i < j => turn.toolExecutions[i].confidence >= turn.toolExecutions[j].confidence


\* the pattern stage ran on the turn's input and found a call at or above the
\* threshold
patternStageDecides ==
  /\ turn.routing # NoRouting
  /\ turn.routing.patternRan
  /\ \E i \in 1..Len(turn.routing.patternDecision.toolCalls) :
       turn.routing.patternDecision.toolCalls[i].confidence
         >= config.toolExecutionThreshold

\* C13: when the pattern stage yields a call at or above the threshold,
\* routeToolCalls returns the pattern decision with route = pattern and makes
\* no classification model call, whatever the classification model would
\* have answered.
PatternStageTakesPriority ==
  patternStageDecides
  => /\ decided.route = "pattern"
     /\ decided.toolCalls = turn.routing.patternDecision.toolCalls
     /\ turn.routing.classifyCalls = 0
     /\ \A c \in Classifications :
          /\ routeToolCalls(config, turn.input, c).decision = decided
          /\ routeToolCalls(config, turn.input, c).classifyCalls = 0

\* a pattern decision returned by a router whose classification stage is
\* enabled and has a model
PatternDecidedBeforeClassifier ==
  /\ patternStageDecides
  /\ config.enableClassificationRouting
  /\ config.classificationModel # Null
  /\ decided.route = "pattern"

----------------------------------------------------------------------------
(* Further properties of the tool registry and the gates *)

\* C17: ToolRegistry.executeToolCall always completes with a ToolResult: a
\* fault raised while the tool runs comes back as success = false with an
\* error, never as an exception out of executeToolCall.
ExecuteToolCallNeverThrows ==
  lastCall # NoCall
  => /\ ~lastCall.outcome.threw
     /\ lastCall.outcome.result # NoResult


\* C18: a call naming a tool the registry does not hold yields a ToolResult
\* with success = false that reports the unknown tool; the permission handler
\* is not invoked, nothing is executed and no exception reaches the caller of
\* the turn, in the registry and in the router service.
UnknownToolIsAFailedResult ==
  /\ (lastCall # NoCall /\ lastCall.toolName \notin registeredTools)
     => /\ ~lastCall.outcome.threw
        /\ ~lastCall.outcome.result.success
        /\ lastCall.outcome.result.content = "Unknown tool"
        /\ lastCall.outcome.events = <<>>
        /\ lastCall.outcome.effect = NoEffect
  /\ \A i \in 1..Len(turn.toolExecutions) :
       LET e == turn.toolExecutions[i]
       IN  e.toolName \notin routerTools
           => /\ e.caught
              /\ ~e.result.success
              /\ e.result.error = "Unknown tool"
              /\ e.events = <<>>
              /\ e.effect = NoEffect

\* the router service was handed a call of a tool it does not hold, and the
\* turn went on to its end
UnknownToolRouted ==
  /\ turn.pc = "idle"
  /\ \E i \in 1..Len(turn.toolExecutions) :
       turn.toolExecutions[i].toolName \notin routerTools


\* the turn's loop over the detected calls is over
turnEnded ==
  /\ turn.pc = "idle"
  /\ turn.routing # NoRouting
  /\ decided.executeTools
  /\ Len(decided.toolCalls) > 0

\* C16: a denied confirmation aborts only its own tool call: every call
\* after a denied one is still submitted for confirmation and, if granted,
\* executed, and the turn ends with one execution record per detected call.
DenialAbortsOnlyItsCall ==
  /\ turn.pc = "executing" => Len(turn.toolExecutions) = turn.idx - 1
  /\ turnEnded
     => /\ Len(turn.toolExecutions) = Len(decided.toolCalls)
        /\ \A j \in 1..Len(turn.toolExecutions) :
             LET e == turn.toolExecutions[j]
             IN  /\ e.toolName = decided.toolCalls[j].toolName
                 /\ e.params = decided.toolCalls[j].params
                 /\ (/\ \E i \in 1..(j - 1) : routerDenied(turn.toolExecutions[i])
                     /\ e.toolName \in routerTools
                     /\ assessToolRisk(e.toolName, e.params) # TypeError
                     /\ e.handler # Null)
                    => /\ occurs(e.events, "permissionHandler")
                       /\ e.granted => precedes(e.events, "granted", "execute")

\* a turn in which a call was denied and a later call was granted and
\* executed
LaterCallRunsAfterDenial ==
  /\ turnEnded
  /\ \E i \in 1..Len(turn.toolExecutions) :
       \E j \in 1..Len(turn.toolExecutions) :
         /\ i < j
         /\ routerDenied(turn.toolExecutions[i])
         /\ turn.toolExecutions[j].granted
         /\ occurs(turn.toolExecutions[j].events, "execute")

----------------------------------------------------------------------------
(* Properties of switchModel and of the turns *)

\* C19: switchModel called with a name that is not in the model catalog
\* reports the failure to its caller as a result, without raising, and leaves
\* currentModel, the effective maxContextTokens and the history unchanged.
UnknownModelIsReportedAsResult ==
  (lastOp.op = "switchModel" /\ ~getModel(lastOp.modelName).found)
  => /\ ~lastOp.raised
     /\ lastOp.returned = "false"
     /\ state.currentModel = lastOp.beforeState.currentModel
     /\ maxContextTokens = lastOp.beforeMax
     /\ state.conversationHistory = lastOp.beforeState.conversationHistory

\* C20: a turn in which the model backend failed, at the initial or at the
\* follow-up completion, ends without an exception leaving the turn operation
\* and with a failure message added to the history.
BackendFaultEndsTurnWithFailureMessage ==
  (lastTurn.ended /\ lastTurn.fault # "none")
  => /\ ~lastTurn.raised
     /\ lastTurn.failureRecorded

inFlight == {p \in Turns : procs[p].pc # "idle"}

\* C14: the session has at most one turn in flight: a turn requested while
\* another is in flight is not started.
AtMostOneTurnInFlight == Cardinality(inFlight) <= 1

\* C15: a message added to the history while a compaction awaited its summary
\* is still in the history once that compaction has replaced it.
CompactionKeepsOverlappingMessages ==
  lastCompaction.installed => lastCompaction.lost = {}

----------------------------------------------------------------------------
(* Further properties of routing *)

\* C21: when the classification stage fails, by its model call throwing or by
\* its response not being parseable, routeToolCalls still returns a decision,
\* and that decision is the fallback one: executeTools false, no tool calls.
ClassificationFaultFallsBack ==
  turn.routing.classificationThrew
  => /\ turn.routing.decision.executeTools = FALSE
     /\ turn.routing.decision.toolCalls = <<>>
     /\ turn.routing.decision = Fallback

\* the classification stage failed on an unparseable response after the
\* pattern stage had detected a call below the threshold
UnparseableResponseRouted ==
  /\ turn.routing.classificationThrew
  /\ ~turn.classification.throws
  /\ turn.routing.patternDecision.toolCalls # <<>>


\* the first rule for a tool among the rules that matched
firstRule(tool, matched) ==
  CHOOSE i \in matched :
    /\ Patterns[i].tool = tool
    /\ \A j \in matched : Patterns[j].tool = tool => i <= j

\* C22: the decision of the pattern stage holds at most one call per tool
\* name, and the call of a tool carries the parameters and the confidence of
\* the first rule, in registration order, that matched for that tool.
OneCallPerToolFirstRuleWins ==
  turn.routing.patternRan =>
    LET toolCalls == turn.routing.patternDecision.toolCalls
    IN  /\ \A i, j \in 1 .. Len(toolCalls) :
             toolCalls[i].toolName = toolCalls[j].toolName => i = j
        /\ \A i \in 1 .. Len(toolCalls) :
             LET first == firstRule(toolCalls[i].toolName, turn.input.matched)
             IN  /\ toolCalls[i].confidence = Patterns[first].confidence
                 /\ toolCalls[i].params = extractParams(first, turn.input)

\* the pattern stage ran on an input that two rules of write_file match,
\* besides rules of other tools
SeveralRulesOfOneToolMatched ==
  /\ turn.routing.patternRan
  /\ {2, 3, 4} \subseteq turn.input.matched
  /\ Len(turn.routing.patternDecision.toolCalls) >= 2


----------------------------------------------------------------------------
(* Properties of the execution records of a StructuredSession *)

\* C25: the execution record built by executeFunctionCall has confirmed true
\* only if the tool was run, that is the permission handler approved the call
\* or no confirmation was needed; for a call the handler denied it is false.
ConfirmedOnlyIfApprovedOrNotNeeded ==
  lastCall.execution.confirmed
  => /\ ~occurs(lastCall.outcome.events, "denied")
     /\ occurs(lastCall.outcome.events, "execute")


\* C24: every tool call submitted to the registry during a turn is one entry
\* of the toolExecutions the turn returns, also a call that
\* generateResponseWithIntelligentTools detected and that was denied or failed.
EverySubmittedCallIsReported ==
  (lastTurn.ended /\ ~lastTurn.raised)
  => lastTurn.log.reported = lastTurn.log.submitted

\* C26: each functionResponse message a turn adds is pushed right behind the
\* functionCall message of the same call, and both are in the history before
\* the turn's final reply.
FunctionResponseFollowsItsCall ==
  /\ lastTurn.log.adjacent
  /\ \A p \in Turns : procs[p].log.adjacent

\* C28: a turn adds the user's text to the history as a user message exactly
\* once, also when generateResponseWithIntelligentTools falls back to
\* generateResponseWithTools.
UserMessageAddedOnce ==
  /\ lastTurn.ended => lastTurn.log.userAdds = 1
  /\ \A p \in Turns : procs[p].log.userAdds <= 1

\* C29: the function-calling loop of generateResponseWithTools ends after at
\* most two completions and one tool call, below maxAttempts.
LoopEndsAfterOneToolCall ==
  /\ \A p \in Turns : /\ procs[p].log.attempts <= 2
                      /\ procs[p].log.calls <= 1
                      /\ procs[p].log.attempts < MaxAttempts
  /\ lastTurn.log.attempts <= 2
  /\ lastTurn.log.calls <= 1

\* a turn made a function call, asked for the follow-up completion and ended
\* with its reply
TurnEndedAfterFollowUp ==
  /\ lastTurn.ended
  /\ ~lastTurn.raised
  /\ lastTurn.log.calls = 1
  /\ lastTurn.log.attempts = 2


\* C27: orchestrateToolCall given no LLM function call, when automatic
\* detection executed nothing with success, returns success false, with
\* needsLLMConfirmation and a suggested prompt if the input holds one of the
\* tool keywords and without them otherwise; it does not raise.
AmbiguousInputAsksTheModel ==
  LET result == orchestration.result
  IN  (/\ orchestration # NoOrchestration
       /\ orchestration.llmFunctionCall = NoToolCall
       /\ ~(result.automatic.ran /\ result.automatic.result.success))
      => /\ ~result.raised
         /\ ~result.success
         /\ result.needsLLMConfirmation = isToolCallCandidate(orchestration.input.text)
         /\ result.suggestedPrompt = isToolCallCandidate(orchestration.input.text)

\* a detected call was submitted and denied, and the input, holding a keyword,
\* was handed back for the model to confirm
DeniedDetectionNeedsConfirmation ==
  /\ orchestration.result.needsLLMConfirmation
  /\ orchestration.result.automatic.ran
  /\ occurs(orchestration.result.automatic.out.events, "denied")


----------------------------------------------------------------------------
(* Properties of compactionCount *)

\* the history begins with the summary message numbered id
summaryAtHead(history, id) ==
  Len(history) > 0 /\ history[1].summary /\ history[1].id = id

\* C30: an addMessage call whose compaction installs a summary message at the
\* head of history raises compactionCount by exactly one, every other
\* addMessage call (threshold not exceeded, at most 4 messages, summarization
\* throwing and truncating, no summary text) leaves it unchanged, and only
\* clearHistory lowers it.
CompactionCountCountsSummaries ==
  [][/\ addCalls' = addCalls + 1 =>
          state'.compactionCount =
            state.compactionCount
            + (IF summaryAtHead(state'.conversationHistory, state.compactionCount + 1)
               THEN 1 ELSE 0)
     /\ addCalls' = addCalls + 1 =>
          (summaryAtHead(state'.conversationHistory, state.compactionCount + 1)
           <=> lastOp'.outcome = "summarized")
     /\ state'.compactionCount < state.compactionCount => lastOp'.op = "clearHistory"]_vars

\* an addMessage call installed the second summary of a session
SecondSummaryInstalled ==
  /\ lastOp.op = "addMessage"
  /\ lastOp.outcome = "summarized"
  /\ state.compactionCount = 2
  /\ summaryAtHead(state.conversationHistory, 2)

====
